---- MODULE Spec2Model ----
(***************************************************************************)
(* A model of the kode-acp adapter: the permission policy                  *)
(* (ToolPermissionManager), the session store (SessionManager), the model  *)
(* registry (MultiModelManager), the tool converter (ACPToolConverter),    *)
(* the execution bridge (KodeIntegration) and the protocol router          *)
(* (KodeAcpAgentSimple).                                                   *)
(*                                                                         *)
(* Each class is modelled by its fields (the VARIABLES) and one action per *)
(* public method.  Methods are first written as operators on the object's  *)
(* state, so that a method that calls another (createSession calling       *)
(* setMode) is one action.  Date.now() is the variable `now`; string ids   *)
(* that the code generates (UUIDs) are drawn fresh from a pool.  A JS      *)
(* value that is absent or falsy ("", undefined, null) is the empty string *)
(* for a string field and the empty sequence for an object field.          *)
(*                                                                         *)
(* Specifications: SpecPerm (the permission policy), SpecStore (the        *)
(* session store: capacity and life cycle), SpecSessionData (the session   *)
(* store: what its sessions hold), SpecSessionCalls (the calls of several  *)
(* callers on one session), SpecSessionMigration (a session exported and   *)
(* imported), SpecSweep (the idle sweep with other callers between its     *)
(* awaits), SpecConverter (the tool converter), SpecModels (the model      *)
(* registry), SpecRouter (the protocol router), SpecToolCalls (the         *)
(* router's tool calls with their timers, under weak fairness of the       *)
(* timers), SpecParallel (executeInParallel and its invocations),          *)
(* SpecStdio (the message loop of stdio mode, under weak fairness of what  *)
(* it awaits), SpecEmitter (the listeners of one event), SpecSessionPolicy *)
(* (the session store and its permission policy) and SpecHttp (the request *)
(* callback of HTTP mode).                                                 *)
(***************************************************************************)
EXTENDS Integers, Sequences, FiniteSets, TLC

VARIABLES
  now,                \* Date.now()
  permissionManager,  \* ToolPermissionManager: [currentMode, permissions]
  permOp,             \* <<>> or <<r>>: the last call on the permission manager (see PermNext)
  sessions,           \* SessionManager.sessions: the Map's entries, in insertion order
  emitted,            \* the session events the last call on the store emitted, in order
  storeOp,            \* <<>> or <<r>>: the last call on the store and what it returned
  agentSessions,      \* KodeAcpAgentSimple.sessions: id -> KodeSession
  multiModelManager,  \* MultiModelManager: [currentModel, modelProfiles, modelPointers]
  kodeIntegration,    \* KodeIntegration: [initialized, pendingRequests]
  calls,              \* the handleMessage calls that are suspended at an await: slot -> call
  timers,             \* the request ids whose 5-minute timer is armed
  running,            \* request id -> tool name: the executeToolInternal calls that have not settled yet
  handling,           \* <<>>, or <<received>> when the last step was handleMessage(received)
  returned,           \* what the handleMessage calls that ended in the last step returned or threw
  collab,             \* the collaborator calls made in the last step
  sweep,              \* <<>> or <<r>>: the cleanupExpiredSessions call that is suspended at an await
  toolConverter,      \* ACPToolConverter: [mappings, reverseMappings]
  lastCall,           \* <<>> or <<r>>: the last call on the converter or the model registry
  batch,              \* <<>> or <<r>>: the executeInParallel call whose invocations are in flight
  eventListeners,     \* EventEmitter.events.get(event): the listeners of one event, in order
  http                \* the HTTP server: the session ids it has returned, the POST in progress, the last exchange

(***************************************************************************)
(* Bounds of the model.                                                    *)
(***************************************************************************)
\* The clock stops here.
MaxTime == 2

Undefined == ""

(***************************************************************************)
(* ToolPermissionManager (tool-converter.ts)                               *)
(***************************************************************************)
\* initializeModes: an absent autoApprove / autoDeny list is the empty set
\* (mode.autoApprove?.includes(x) is then undefined, which is falsy).
modes ==
  [ default            |-> [ autoApprove |-> {"read_file", "glob", "search"},
                             autoDeny    |-> {"run_command", "edit_file", "write_file"} ],
    accept_edits       |-> [ autoApprove |-> {"read_file", "glob", "search"},
                             autoDeny    |-> {"run_command"} ],
    bypass_permissions |-> [ autoApprove |-> {"*"},
                             autoDeny    |-> {} ],
    plan               |-> [ autoApprove |-> {},
                             autoDeny    |-> {"*"} ] ]

ModeNames == DOMAIN modes

\* new ToolPermissionManager()
NewPermissionManager == [ currentMode |-> "default", permissions |-> <<>> ]

\* this.permissions.set(toolName, {toolName, allowed, reason, timestamp: Date.now()})
setPermission(pm, toolName, allowed, reason, t) ==
  [ pm EXCEPT !.permissions =
      [ k \in (DOMAIN pm.permissions) \cup {toolName} |->
          IF k = toolName
            THEN [ toolName |-> toolName, allowed |-> allowed,
                   reason |-> reason, timestamp |-> t ]
            ELSE pm.permissions[k] ] ]

\* A requestPermission that skips the auto-approve branch.
requestPermissionMutNoApprove(pm, toolName, t) ==
  IF pm.currentMode \notin ModeNames
    THEN [ pm |-> pm, result |-> FALSE ]
  ELSE IF "*" \in modes[pm.currentMode].autoDeny \/ toolName \in modes[pm.currentMode].autoDeny
    THEN [ pm |-> setPermission(pm, toolName, FALSE, "Auto-denied by mode", t), result |-> FALSE ]
  ELSE [ pm |-> setPermission(pm, toolName, TRUE, "Auto-approved by mode", t), result |-> TRUE ]

\* requestPermission(toolName): its three branches in the order of the code;
\* [pm, result].
requestPermission(pm, toolName, t) ==
  IF pm.currentMode \notin ModeNames
    THEN [ pm |-> pm, result |-> FALSE ]
  ELSE IF "*" \in modes[pm.currentMode].autoApprove \/ toolName \in modes[pm.currentMode].autoApprove
    THEN [ pm |-> setPermission(pm, toolName, TRUE, "Auto-approved by mode", t), result |-> TRUE ]
  ELSE IF "*" \in modes[pm.currentMode].autoDeny \/ toolName \in modes[pm.currentMode].autoDeny
    THEN [ pm |-> setPermission(pm, toolName, FALSE, "Auto-denied by mode", t), result |-> FALSE ]
  ELSE [ pm |-> setPermission(pm, toolName, FALSE, "Requires explicit approval", t), result |-> FALSE ]

\* A setMode that keeps the recorded decisions.
setModeMutKeepCache(pm, modeName) ==
  IF modeName \in ModeNames
    THEN [ pm EXCEPT !.currentMode = modeName ]
    ELSE pm

\* A setMode that does not look the name up.
setModeMutNoCheck(pm, modeName) ==
  [ currentMode |-> modeName, permissions |-> <<>> ]

\* setMode: a known name switches and clears the decisions, an unknown one only logs.
setMode(pm, modeName) ==
  IF modeName \in ModeNames
    THEN [ currentMode |-> modeName, permissions |-> <<>> ]
    ELSE pm

\* clearExpiredPermissions(timeout): drops the decisions older than timeout.
clearExpiredPermissions(pm, timeout, t) ==
  [ pm EXCEPT !.permissions =
      [ k \in { x \in DOMAIN pm.permissions : ~(t - pm.permissions[x].timestamp > timeout) } |->
          pm.permissions[k] ] ]

(***************************************************************************)
(* A JS Map as the sequence of its entries in insertion order: set() on a  *)
(* key that is present replaces the value in place, on a new key appends.  *)
(***************************************************************************)
MapKeys(m) == { m[i].id : i \in DOMAIN m }

MapHas(m, id) == id \in MapKeys(m)

MapGet(m, id) == m[CHOOSE i \in DOMAIN m : m[i].id = id]

MapSet(m, id, v) ==
  IF MapHas(m, id)
    THEN [ i \in DOMAIN m |-> IF m[i].id = id THEN v ELSE m[i] ]
    ELSE Append(m, v)

MapDelete(m, id) == SelectSeq(m, LAMBDA e : e.id # id)

(***************************************************************************)
(* SessionManager (session-manager.ts).  Every method is an operator on    *)
(* the manager's state that returns the new sessions, the new permission   *)
(* manager, the events emitted and the value returned.                     *)
(***************************************************************************)
\* private maxSessions = 100, scaled down: the cap is reached with two sessions.
maxSessions == 2

\* private defaultSessionTimeout = 1800000 ms, in clock ticks of 30 minutes.
defaultSessionTimeout == 1

\* getCurrentWorkingDirectory()
getCurrentWorkingDirectory == "/cwd"

OrElse(v, d) == IF v = Undefined THEN d ELSE v

\* A destroySession that marks the session inactive and leaves it in the Map.
destroySessionMutNoDelete(ss, sessionId) ==
  IF ~MapHas(ss, sessionId)
    THEN [ sessions |-> ss, events |-> <<>>, result |-> FALSE ]
    ELSE LET session == [ MapGet(ss, sessionId) EXCEPT !.isActive = FALSE ] IN
         [ sessions |-> MapSet(ss, sessionId, session),
           events |-> << [ type |-> "destroyed", sessionId |-> sessionId,
                           isActive |-> session.isActive ] >>,
           result |-> TRUE ]

\* destroySession on the Map: [sessions, events, result].  The event carries
\* the session object, of which isActive is kept here: it was just set false.
destroySession(ss, sessionId) ==
  IF ~MapHas(ss, sessionId)
    THEN [ sessions |-> ss, events |-> <<>>, result |-> FALSE ]
    ELSE LET session == [ MapGet(ss, sessionId) EXCEPT !.isActive = FALSE ] IN
         [ sessions |-> MapDelete(ss, sessionId),
           events |-> << [ type |-> "destroyed", sessionId |-> sessionId,
                           isActive |-> session.isActive ] >>,
           result |-> TRUE ]

\* A selection that spares the session whose idle time is exactly the timeout.
ExpiredIdsMutStrict(ss, t) ==
  LET hit == SelectSeq(ss, LAMBDA e :
               ~e.isActive \/ (t - e.lastActivity) > defaultSessionTimeout) IN
  [ i \in DOMAIN hit |-> hit[i].id ]

\* The ids cleanupExpiredSessions selects, in the Map's order.
ExpiredIds(ss, t) ==
  LET hit == SelectSeq(ss, LAMBDA e :
               ~e.isActive \/ (t - e.lastActivity) >= defaultSessionTimeout) IN
  [ i \in DOMAIN hit |-> hit[i].id ]

RECURSIVE DestroyAll(_, _)
DestroyAll(r, ids) ==
  IF ids = <<>> THEN r
  ELSE LET d == destroySession(r.sessions, Head(ids)) IN
       DestroyAll([ sessions |-> d.sessions, events |-> r.events \o d.events ], Tail(ids))

\* A sweep that announces the timeout before it destroys.
cleanupExpiredSessionsMutTimeoutFirst(ss, t) ==
  LET expired == ExpiredIds(ss, t)
      d == DestroyAll([ sessions |-> ss, events |-> <<>> ], expired) IN
  [ sessions |-> d.sessions,
    events |-> IF Len(expired) > 0
                 THEN << [ type |-> "timeout", sessionId |-> "",
                           expiredSessions |-> expired ] >> \o d.events
                 ELSE d.events,
    result |-> Len(expired) ]

\* cleanupExpiredSessions: [sessions, events, result].
cleanupExpiredSessions(ss, t) ==
  LET expired == ExpiredIds(ss, t)
      d == DestroyAll([ sessions |-> ss, events |-> <<>> ], expired) IN
  [ sessions |-> d.sessions,
    events |-> IF Len(expired) > 0
                 THEN d.events \o << [ type |-> "timeout", sessionId |-> "",
                                       expiredSessions |-> expired ] >>
                 ELSE d.events,
    result |-> Len(expired) ]

NewSession(sessionId, config, t) ==
  [ id |-> sessionId,
    mode |-> OrElse(config.mode, "default"),
    workingDirectory |-> OrElse(config.workingDirectory, getCurrentWorkingDirectory),
    permissionMode |-> OrElse(config.permissionMode, "yolo"),
    createdAt |-> t,
    lastActivity |-> t,
    toolCallCount |-> 0,
    isActive |-> TRUE,
    metadata |-> <<>> ]

\* A createSession that does not look at the size again after the sweep.
createSessionMutNoRecheck(ss, pm, config, gen, t) ==
  LET sessionId == OrElse(config.id, gen)
      swept == IF Len(ss) >= maxSessions
                 THEN cleanupExpiredSessions(ss, t)
                 ELSE [ sessions |-> ss, events |-> <<>>, result |-> 0 ]
      session == NewSession(sessionId, config, t) IN
  [ sessions |-> MapSet(swept.sessions, sessionId, session),
    pm |-> setMode(pm, session.mode),
    events |-> swept.events \o << [ type |-> "created", sessionId |-> sessionId,
                                    imported |-> FALSE ] >>,
    result |-> [ ok |-> TRUE, id |-> sessionId ] ]

\* createSession(config); gen is what generateSessionId() would return.
\* result: [ok |-> TRUE, id] or [ok |-> FALSE, error].
createSession(ss, pm, config, gen, t) ==
  LET sessionId == OrElse(config.id, gen)
      swept == IF Len(ss) >= maxSessions
                 THEN cleanupExpiredSessions(ss, t)
                 ELSE [ sessions |-> ss, events |-> <<>>, result |-> 0 ]
      session == NewSession(sessionId, config, t) IN
  IF Len(swept.sessions) >= maxSessions
    THEN [ sessions |-> swept.sessions, pm |-> pm, events |-> swept.events,
           result |-> [ ok |-> FALSE, error |-> "Maximum session limit reached" ] ]
    ELSE [ sessions |-> MapSet(swept.sessions, sessionId, session),
           pm |-> setMode(pm, session.mode),
           events |-> swept.events \o << [ type |-> "created", sessionId |-> sessionId,
                                           imported |-> FALSE ] >>,
           result |-> [ ok |-> TRUE, id |-> sessionId ] ]

\* getSession: touches lastActivity and returns a shallow copy, or null (<<>>).
getSession(ss, sessionId, t) ==
  IF ~MapHas(ss, sessionId)
    THEN [ sessions |-> ss, result |-> <<>> ]
    ELSE LET session == [ MapGet(ss, sessionId) EXCEPT !.lastActivity = t ] IN
         [ sessions |-> MapSet(ss, sessionId, session), result |-> << session >> ]

\* An updateSession that emits its updated event whether or not a field changed.
updateSessionMutAlwaysEmits(ss, pm, sessionId, updates, t) ==
  IF ~MapHas(ss, sessionId)
    THEN [ sessions |-> ss, pm |-> pm, events |-> <<>>, result |-> FALSE ]
    ELSE
      LET old == MapGet(ss, sessionId)
          modeCh == updates.mode # Undefined /\ updates.mode # old.mode
          wdCh == updates.workingDirectory # Undefined
                    /\ updates.workingDirectory # old.workingDirectory
          pmCh == updates.permissionMode # Undefined
                    /\ updates.permissionMode # old.permissionMode
          changes == (IF modeCh THEN << "mode" >> ELSE <<>>)
                       \o (IF wdCh THEN << "workingDirectory" >> ELSE <<>>)
                       \o (IF pmCh THEN << "permissionMode" >> ELSE <<>>)
          session == [ old EXCEPT
                         !.mode = IF modeCh THEN updates.mode ELSE @,
                         !.workingDirectory = IF wdCh THEN updates.workingDirectory ELSE @,
                         !.permissionMode = IF pmCh THEN updates.permissionMode ELSE @,
                         !.lastActivity = t ] IN
      [ sessions |-> MapSet(ss, sessionId, session),
        pm |-> IF modeCh THEN setMode(pm, updates.mode) ELSE pm,
        events |->
          IF Len(changes) >= 0
            THEN << [ type |-> "updated", sessionId |-> sessionId, changes |-> changes ] >>
                   \o (IF old.mode # session.mode
                         THEN << [ type |-> "mode_changed", sessionId |-> sessionId,
                                   oldMode |-> old.mode, newMode |-> session.mode ] >>
                         ELSE <<>>)
            ELSE <<>>,
        result |-> TRUE ]

\* updateSession(sessionId, updates): [sessions, pm, events, result].
updateSession(ss, pm, sessionId, updates, t) ==
  IF ~MapHas(ss, sessionId)
    THEN [ sessions |-> ss, pm |-> pm, events |-> <<>>, result |-> FALSE ]
    ELSE
      LET old == MapGet(ss, sessionId)
          modeCh == updates.mode # Undefined /\ updates.mode # old.mode
          wdCh == updates.workingDirectory # Undefined
                    /\ updates.workingDirectory # old.workingDirectory
          pmCh == updates.permissionMode # Undefined
                    /\ updates.permissionMode # old.permissionMode
          changes == (IF modeCh THEN << "mode" >> ELSE <<>>)
                       \o (IF wdCh THEN << "workingDirectory" >> ELSE <<>>)
                       \o (IF pmCh THEN << "permissionMode" >> ELSE <<>>)
          session == [ old EXCEPT
                         !.mode = IF modeCh THEN updates.mode ELSE @,
                         !.workingDirectory = IF wdCh THEN updates.workingDirectory ELSE @,
                         !.permissionMode = IF pmCh THEN updates.permissionMode ELSE @,
                         !.lastActivity = t ] IN
      [ sessions |-> MapSet(ss, sessionId, session),
        pm |-> IF modeCh THEN setMode(pm, updates.mode) ELSE pm,
        events |->
          IF Len(changes) > 0
            THEN << [ type |-> "updated", sessionId |-> sessionId, changes |-> changes ] >>
                   \o (IF old.mode # session.mode
                         THEN << [ type |-> "mode_changed", sessionId |-> sessionId,
                                   oldMode |-> old.mode, newMode |-> session.mode ] >>
                         ELSE <<>>)
            ELSE <<>>,
        result |-> TRUE ]

\* An incrementToolCall that returns the count it read.
incrementToolCallMutStale(ss, sessionId, t) ==
  IF ~MapHas(ss, sessionId)
    THEN [ sessions |-> ss, result |-> 0 ]
    ELSE LET old == MapGet(ss, sessionId)
             session == [ old EXCEPT !.toolCallCount = @ + 1, !.lastActivity = t ] IN
         [ sessions |-> MapSet(ss, sessionId, session), result |-> old.toolCallCount ]

\* incrementToolCall(sessionId): [sessions, result]; 0 when there is no session.
incrementToolCall(ss, sessionId, t) ==
  IF ~MapHas(ss, sessionId)
    THEN [ sessions |-> ss, result |-> 0 ]
    ELSE LET old == MapGet(ss, sessionId)
             session == [ old EXCEPT !.toolCallCount = @ + 1, !.lastActivity = t ] IN
         [ sessions |-> MapSet(ss, sessionId, session), result |-> session.toolCallCount ]

\* metadata.set(key, value) on a Map<string, any>.
metadataSet(metadata, key, value) ==
  [ k \in DOMAIN metadata \cup {key} |-> IF k = key THEN value ELSE metadata[k] ]

\* setSessionMetadata(sessionId, key, value): [sessions, result].
setSessionMetadata(ss, sessionId, key, value, t) ==
  IF ~MapHas(ss, sessionId)
    THEN [ sessions |-> ss, result |-> FALSE ]
    ELSE LET session == [ MapGet(ss, sessionId) EXCEPT
                            !.metadata = metadataSet(@, key, value), !.lastActivity = t ] IN
         [ sessions |-> MapSet(ss, sessionId, session), result |-> TRUE ]

\* Object.fromEntries(map) on a Map with string keys: the object that has the
\* Map's keys as properties.
ObjectFromEntries(map) == [ k \in DOMAIN map |-> map[k] ]

\* new Map(Object.entries(object)): the Map that has the object's own
\* properties as keys.
MapOfEntries(object) == [ k \in DOMAIN object |-> object[k] ]

\* exportSession(sessionId): reads through getSession, which touches
\* lastActivity; the snapshot has no isActive.  [sessions, result]; null is <<>>.
exportSession(ss, sessionId, t) ==
  LET g == getSession(ss, sessionId, t) IN
  IF g.result = <<>>
    THEN [ sessions |-> g.sessions, result |-> <<>> ]
    ELSE LET session == g.result[1] IN
         [ sessions |-> g.sessions,
           result |-> << [ id |-> session.id,
                           mode |-> session.mode,
                           workingDirectory |-> session.workingDirectory,
                           permissionMode |-> session.permissionMode,
                           createdAt |-> session.createdAt,
                           lastActivity |-> session.lastActivity,
                           toolCallCount |-> session.toolCallCount,
                           metadata |-> ObjectFromEntries(session.metadata) ] >> ]

\* An importSession that starts the count of the imported session at 0.
importSessionMutFreshCount(ss, pm, sessionData, gen, t) ==
  LET sessionId == OrElse(sessionData.id, gen)
      session ==
        [ id |-> sessionId,
          mode |-> OrElse(sessionData.mode, "default"),
          workingDirectory |-> OrElse(sessionData.workingDirectory, getCurrentWorkingDirectory),
          permissionMode |-> OrElse(sessionData.permissionMode, "yolo"),
          createdAt |-> IF sessionData.createdAt = 0 THEN t ELSE sessionData.createdAt,
          lastActivity |-> IF sessionData.lastActivity = 0 THEN t ELSE sessionData.lastActivity,
          toolCallCount |-> 0,
          isActive |-> TRUE,
          metadata |-> MapOfEntries(sessionData.metadata) ] IN
  [ sessions |-> MapSet(ss, sessionId, session),
    pm |-> setMode(pm, session.mode),
    events |-> << [ type |-> "created", sessionId |-> sessionId, imported |-> TRUE ] >>,
    result |-> sessionId ]

\* importSession(sessionData): no capacity check; a field that is absent or
\* falsy (a timestamp or a count of 0, an empty string) takes its default.
importSession(ss, pm, sessionData, gen, t) ==
  LET sessionId == OrElse(sessionData.id, gen)
      session ==
        [ id |-> sessionId,
          mode |-> OrElse(sessionData.mode, "default"),
          workingDirectory |-> OrElse(sessionData.workingDirectory, getCurrentWorkingDirectory),
          permissionMode |-> OrElse(sessionData.permissionMode, "yolo"),
          createdAt |-> IF sessionData.createdAt = 0 THEN t ELSE sessionData.createdAt,
          lastActivity |-> IF sessionData.lastActivity = 0 THEN t ELSE sessionData.lastActivity,
          toolCallCount |-> sessionData.toolCallCount,
          isActive |-> TRUE,
          metadata |-> MapOfEntries(sessionData.metadata) ] IN
  [ sessions |-> MapSet(ss, sessionId, session),
    pm |-> setMode(pm, session.mode),
    events |-> << [ type |-> "created", sessionId |-> sessionId, imported |-> TRUE ] >>,
    result |-> sessionId ]

(***************************************************************************)
(* MultiModelManager (multi-model.ts)                                      *)
(***************************************************************************)
\* initializeDefaultModels: the names of the default profiles.
DefaultModelNames ==
  {"claude-sonnet", "claude-haiku", "gpt-4", "gpt-4o", "qwen-coder", "gemini-pro"}

\* new MultiModelManager(config)
NewMultiModelManager ==
  [ currentModel |-> "claude-sonnet",
    modelProfiles |-> DefaultModelNames,
    modelPointers |-> [ main |-> "claude-sonnet", task |-> "qwen-coder",
                        reasoning |-> "gpt-4", quick |-> "claude-haiku" ] ]

\* getModelProfile(name) is defined
hasModelProfile(mm, name) == name \in mm.modelProfiles

\* A setCurrentModel that does not look for the profile.
setCurrentModelMutNoCheck(mm, name) ==
  [ mm |-> [ mm EXCEPT !.currentModel = name ], result |-> TRUE ]

\* setCurrentModel(name): [mm, result]
setCurrentModel(mm, name) ==
  IF name \in mm.modelProfiles
    THEN [ mm |-> [ mm EXCEPT !.currentModel = name ], result |-> TRUE ]
    ELSE [ mm |-> mm, result |-> FALSE ]

\* A switchToModel that does not look for the profile of the pointer's name.
switchToModelMutNoCheck(mm, purpose) ==
  [ mm |-> [ mm EXCEPT !.currentModel = mm.modelPointers[purpose] ], result |-> TRUE ]

\* switchToModel(purpose): [mm, result]
switchToModel(mm, purpose) ==
  LET modelName == mm.modelPointers[purpose] IN
  IF modelName \in mm.modelProfiles
    THEN [ mm |-> [ mm EXCEPT !.currentModel = modelName ], result |-> TRUE ]
    ELSE [ mm |-> mm, result |-> FALSE ]

\* setModelPointers(pointers): pointers is a function on some of the purposes.
setModelPointers(mm, pointers) ==
  [ mm EXCEPT !.modelPointers =
      [ purpose \in DOMAIN mm.modelPointers |->
          IF purpose \in DOMAIN pointers THEN pointers[purpose]
          ELSE mm.modelPointers[purpose] ] ]

\* addModelProfile(profile), a profile being known by its name.
addModelProfile(mm, name) == [ mm EXCEPT !.modelProfiles = @ \cup {name} ]

\* removeModelProfile(name): [mm, result]
removeModelProfile(mm, name) ==
  [ mm |-> [ mm EXCEPT !.modelProfiles = @ \ {name} ],
    result |-> name \in mm.modelProfiles ]

\* importConfig(config): modelProfiles and modelPointers are <<>> (absent) or
\* << value >>, currentModel is Undefined or a name.
importConfig(mm, config) ==
  LET profiles == IF config.modelProfiles # <<>> THEN config.modelProfiles[1]
                  ELSE mm.modelProfiles
      pointers == IF config.modelPointers # <<>> THEN config.modelPointers[1]
                  ELSE mm.modelPointers IN
  [ currentModel |-> IF config.currentModel # Undefined /\ config.currentModel \in profiles
                       THEN config.currentModel
                       ELSE mm.currentModel,
    modelProfiles |-> profiles,
    modelPointers |-> pointers ]

\* getModelForPurpose(purpose): the profile (its name), or Undefined
getModelForPurpose(mm, purpose) ==
  IF mm.modelPointers[purpose] \in mm.modelProfiles THEN mm.modelPointers[purpose]
  ELSE Undefined

\* getCurrentModelProfile()?.name || 'Unknown'
currentModelLabel(mm) ==
  IF mm.currentModel \in mm.modelProfiles THEN mm.currentModel ELSE "Unknown"

\* A truthy prompt that is not a string: it has no substring method.
NotAString == "[object Object]"

\* executeWithModel up to its await: the profile it resolves, or the error it
\* throws (no profile, or prompt.substring is not a function).
executeWithModelResolve(mm, prompt, modelName) ==
  LET targetModel == IF modelName = Undefined THEN mm.currentModel ELSE modelName IN
  IF targetModel \notin mm.modelProfiles
    THEN [ ok |-> FALSE, error |-> "Model profile not found" ]
  ELSE IF prompt = NotAString
    THEN [ ok |-> FALSE, error |-> "prompt.substring is not a function" ]
  ELSE [ ok |-> TRUE, profile |-> targetModel ]

\* executeInParallel, the model name of a request: request.modelName ||
\* (request.purpose ? this.modelPointers[request.purpose] : this.currentModel)
requestModelName(mm, request) ==
  IF request.modelName # Undefined THEN request.modelName
  ELSE IF request.purpose # Undefined THEN mm.modelPointers[request.purpose]
  ELSE mm.currentModel

\* executeInParallel, one request from the call of the map callback to its
\* first await that waits: the profile that is invoked (Undefined if none)
\* and the entry of the catch block (<<>> while the invocation is pending).
parallelRequest(mm, request) ==
  LET resolved == executeWithModelResolve(mm, request.prompt, requestModelName(mm, request)) IN
  IF resolved.ok
    THEN [ profile |-> resolved.profile, entry |-> <<>> ]
    ELSE [ profile |-> Undefined,
           entry |-> << [ model |-> OrElse(request.modelName, mm.currentModel),
                          response |-> "", error |-> resolved.error ] >> ]

(***************************************************************************)
(* ACPToolConverter (tool-converter.ts)                                    *)
(***************************************************************************)
\* DEFAULT_TOOL_MAPPINGS: fromACP -> toKode
DEFAULT_TOOL_MAPPINGS ==
  [ read_file |-> "FileRead", write_file |-> "FileWrite", edit_file |-> "FileEdit",
    run_command |-> "Bash", glob |-> "Glob", search |-> "Grep",
    create_task |-> "Task", web_search |-> "WebSearch", web_fetch |-> "WebFetch" ]

\* new ACPToolConverter(): initializeMappings over DEFAULT_TOOL_MAPPINGS.  A
\* ToolMapping is [fromACP, toKode, transform, reverseTransform]; the default
\* mappings have a transform that renames fields and no reverseTransform.
DefaultMapping(fromACP) ==
  [ fromACP |-> fromACP, toKode |-> DEFAULT_TOOL_MAPPINGS[fromACP],
    transform |-> "rename", reverseTransform |-> "none" ]

\* The order of the entries of DEFAULT_TOOL_MAPPINGS.
DEFAULT_TOOL_ORDER ==
  << "read_file", "write_file", "edit_file", "run_command", "glob", "search",
     "create_task", "web_search", "web_fetch" >>

\* The transforms of DEFAULT_TOOL_MAPPINGS: each builds an object whose
\* fields are read from fields of the input (field of the output -> field
\* of the input).
DefaultTransformFields ==
  [ read_file |-> [ abs_path |-> "path", file_path |-> "path" ],
    write_file |-> [ abs_path |-> "path", file_path |-> "path", content |-> "content" ],
    edit_file |-> [ abs_path |-> "path", file_path |-> "path",
                    old_string |-> "old_string", new_string |-> "new_string" ],
    run_command |-> [ command |-> "command" ],
    glob |-> [ pattern |-> "pattern", path |-> "path" ],
    search |-> [ pattern |-> "pattern", path |-> "path" ],
    create_task |-> [ description |-> "description" ],
    web_search |-> [ query |-> "query" ],
    web_fetch |-> [ url |-> "url" ] ]

\* A Map<string, ToolMapping> keyed by toKode, in insertion order: set on a
\* key that is there keeps its place, delete takes the entry out.
ReverseSet(reverse, mapping) ==
  IF \E n \in DOMAIN reverse : reverse[n].toKode = mapping.toKode
    THEN [ n \in DOMAIN reverse |->
             IF reverse[n].toKode = mapping.toKode THEN mapping ELSE reverse[n] ]
    ELSE Append(reverse, mapping)

ReverseDelete(reverse, toKode) ==
  LET Other(mapping) == mapping.toKode # toKode IN SelectSeq(reverse, Other)

ReverseHas(reverse, toKode) == \E n \in DOMAIN reverse : reverse[n].toKode = toKode

ReverseGet(reverse, toKode) ==
  reverse[CHOOSE n \in DOMAIN reverse : reverse[n].toKode = toKode]

\* mappings is a function fromACP -> ToolMapping, reverseMappings a Map in
\* insertion order (convertFromKode searches it from the front).
NewToolConverter ==
  [ mappings |-> [ fromACP \in DOMAIN DEFAULT_TOOL_MAPPINGS |-> DefaultMapping(fromACP) ],
    reverseMappings |->
      [ n \in DOMAIN DEFAULT_TOOL_ORDER |-> DefaultMapping(DEFAULT_TOOL_ORDER[n]) ] ]

\* input.field: undefined where the object has no such property.
Field(input, field) == IF field \in DOMAIN input THEN input[field] ELSE Undefined

\* mapping.transform(input) for a transform that returns: the transforms of
\* the default mappings.
Transform(mapping, input) ==
  LET fields == DefaultTransformFields[mapping.fromACP] IN
  [ out \in DOMAIN fields |-> Field(input, fields[out]) ]

\* toolCall.input || {}: input is <<>> (absent) or <<object>>.
InputOrEmpty(input) == IF input = <<>> THEN <<>> ELSE input[1]

\* A convertToKode that hands on the id of the call as it is.
convertToKodeWithMutNoId(converter, toolCall, gen) ==
  IF toolCall = <<>> \/ toolCall[1].name = Undefined THEN <<>>
  ELSE IF toolCall[1].name \notin DOMAIN converter.mappings THEN <<>>
  ELSE LET mapping == converter.mappings[toolCall[1].name] IN
       IF mapping.transform = "throws" THEN <<>>
       ELSE << [ name |-> mapping.toKode,
                 input |-> IF mapping.transform = "none"
                             THEN InputOrEmpty(toolCall[1].input)
                             ELSE Transform(mapping, InputOrEmpty(toolCall[1].input)),
                 id |-> toolCall[1].id ] >>

\* convertToKode(toolCall) on a converter: <<>> for null, or << call >>.  A
\* call is <<>> (null) or << [name, input, id] >>; an id is a sequence of
\* pieces of text, <<>> for none; gen is what generateToolId() would return.
\* The transform of a mapping is "none" (no transform), "rename" (a default
\* one) or "throws".
convertToKodeWith(converter, toolCall, gen) ==
  IF toolCall = <<>> \/ toolCall[1].name = Undefined THEN <<>>
  ELSE IF toolCall[1].name \notin DOMAIN converter.mappings THEN <<>>
  ELSE LET mapping == converter.mappings[toolCall[1].name] IN
       IF mapping.transform = "throws" THEN <<>>
       ELSE << [ name |-> mapping.toKode,
                 input |-> IF mapping.transform = "none"
                             THEN InputOrEmpty(toolCall[1].input)
                             ELSE Transform(mapping, InputOrEmpty(toolCall[1].input)),
                 id |-> IF toolCall[1].id = <<>> THEN gen ELSE toolCall[1].id ] >>

\* text.includes(piece)
Includes(text, piece) == \E n \in DOMAIN text : text[n] = piece

\* convertFromKode(result) for a result [tool_use_id, content, is_error],
\* is_error being <<>> (absent) or << flag >>: the mapping is the first of
\* reverseMappings whose toKode the call id includes.
convertFromKode(converter, result) ==
  IF result.tool_use_id = <<>> THEN result
  ELSE
    LET reverse == converter.reverseMappings
        found == { n \in DOMAIN reverse : Includes(result.tool_use_id, reverse[n].toKode) }
        first == CHOOSE n \in found : \A other \in found : n <= other IN
    IF found # {} /\ reverse[first].reverseTransform # "none"
      THEN [ reverseTransform |-> reverse[first].reverseTransform, applied |-> result ]
      ELSE [ type |-> "tool_result",
             tool_use_id |-> result.tool_use_id,
             content |-> result.content,
             is_error |-> IF result.is_error = <<>> THEN FALSE ELSE result.is_error[1] ]

\* addMapping(mapping)
addMapping(converter, mapping) ==
  [ mappings |-> [ fromACP \in DOMAIN converter.mappings \cup {mapping.fromACP} |->
                     IF fromACP = mapping.fromACP THEN mapping
                     ELSE converter.mappings[fromACP] ],
    reverseMappings |-> ReverseSet(converter.reverseMappings, mapping) ]

\* removeMapping(acpToolName)
removeMapping(converter, acpToolName) ==
  IF acpToolName \notin DOMAIN converter.mappings THEN converter
  ELSE [ mappings |-> [ fromACP \in DOMAIN converter.mappings \ {acpToolName} |->
                          converter.mappings[fromACP] ],
         reverseMappings |->
           ReverseDelete(converter.reverseMappings,
                         converter.mappings[acpToolName].toKode) ]

\* convertToKode(toolCall) with the default mappings: the Kode tool name, or
\* Undefined for null
convertToKode(toolCall) ==
  IF toolCall = <<>> \/ toolCall[1].name = Undefined THEN Undefined
  ELSE IF toolCall[1].name \notin DOMAIN DEFAULT_TOOL_MAPPINGS THEN Undefined
  ELSE DEFAULT_TOOL_MAPPINGS[toolCall[1].name]

(***************************************************************************)
(* KodeIntegration (kode-integration.ts)                                   *)
(***************************************************************************)
\* new KodeIntegration(config)
NewKodeIntegration == [ initialized |-> FALSE, pendingRequests |-> {} ]

\* simulateToolExecution: the is_error values the result for a tool name can
\* carry (the file system and the shell decide for the tools that are wired).
simulateToolExecution(name) ==
  CASE name \in {"FileRead", "FileWrite", "Bash", "Glob"} -> {FALSE, TRUE}
    [] name = "Task" -> {FALSE}
    [] OTHER -> {TRUE}

(***************************************************************************)
(* KodeAcpAgentSimple (acp-agent-simple.ts).  What a handler does at a     *)
(* return or a throw is an outcome: [kind |-> "return", response] or       *)
(* [kind |-> "throw", error].                                              *)
(***************************************************************************)
Return(response) == [ kind |-> "return", response |-> response ]
Throw(error) == [ kind |-> "throw", error |-> error ]
NullTypeError == "TypeError: Cannot read properties of null (reading 'type')"
\* {type: 'error', error}; an error text is kept up to the value the code
\* interpolates into it.
ErrorResponse(error) == [ type |-> "error", error |-> error ]

\* The switch of handleMessage: the handler for a message type.
handleMessageDispatch(type) ==
  IF type \in {"initialize", "new_session", "prompt", "tool_call",
               "model_command", "list_models"}
    THEN type
    ELSE "default"

\* handleMessage's default branch.
handleUnknown(message) == Return(ErrorResponse("Unknown message type"))

\* A handlePrompt that does not look the session up.
handlePromptCheckMutNoSession(ss, message) ==
  IF message.sessionId = Undefined \/ message.prompt = Undefined
    THEN "Missing sessionId or prompt"
  ELSE "ok"

\* A handlePrompt that does not test for the missing fields.
handlePromptCheckMutNoMissing(ss, message) ==
  IF message.sessionId \notin DOMAIN ss
    THEN "Session not found"
  ELSE IF ss[message.sessionId].cancelled
    THEN "Session was cancelled"
  ELSE "ok"

\* handlePrompt before the model call: the error it returns, or "ok".
handlePromptCheck(ss, message) ==
  IF message.sessionId = Undefined \/ message.prompt = Undefined
    THEN "Missing sessionId or prompt"
  ELSE IF message.sessionId \notin DOMAIN ss
    THEN "Session not found"
  ELSE IF ss[message.sessionId].cancelled
    THEN "Session was cancelled"
  ELSE "ok"

\* handleToolCall before the execution: the error it returns, or "ok".
handleToolCallCheck(ss, message) ==
  IF message.sessionId = Undefined \/ message.toolCall = <<>>
    THEN "Missing sessionId or toolCall"
  ELSE IF message.sessionId \notin DOMAIN ss
    THEN "Session not found"
  ELSE "ok"

\* The catch blocks of handlePrompt, handleModelCommand ('ask') and handleToolCall.
catchModelFailure(error) == Return(ErrorResponse("Model execution failed"))

catchExpertFailure(error) == Return(ErrorResponse("Expert model call failed"))

catchToolFailure(error) == Return(ErrorResponse("Tool call failed"))

(***************************************************************************)
(* The state after construction.  permOp and storeOp name the call made in *)
(* the last step (they are empty after a step that is no call), with its   *)
(* arguments and what it returned; emitted is what the listeners of        *)
(* 'session_event' were handed during that call.                           *)
(***************************************************************************)
storeVars == <<sessions, emitted, storeOp>>

routerVars == <<agentSessions, multiModelManager, kodeIntegration, calls, timers,
                running, handling, returned, collab>>

\* The variables of the parts that stand beside the store and the router.
laterVars == <<batch, eventListeners, http>>

extraVars == <<sweep, toolConverter, lastCall, laterVars>>

vars == <<now, permissionManager, permOp, storeVars, routerVars, extraVars>>

Init ==
  /\ now = 0
  /\ permissionManager = NewPermissionManager
  /\ permOp = <<>>
  /\ sessions = <<>>
  /\ emitted = <<>>
  /\ storeOp = <<>>
  /\ agentSessions = <<>>
  /\ multiModelManager = NewMultiModelManager
  /\ kodeIntegration = NewKodeIntegration
  /\ calls = <<>>
  /\ timers = {}
  /\ running = <<>>
  /\ handling = <<>>
  /\ returned = {}
  /\ collab = {}
  /\ sweep = <<>>
  /\ toolConverter = NewToolConverter
  /\ batch = <<>>
  /\ eventListeners = <<>>
  /\ http = [ issued |-> {}, pending |-> <<>>, exchange |-> <<>> ]
  /\ lastCall = <<>>

\* Time passes.
Tick ==
  /\ now < MaxTime
  /\ now' = now + 1
  /\ permOp' = <<>>
  /\ storeOp' = <<>>
  /\ emitted' = <<>>
  /\ UNCHANGED <<permissionManager, sessions, routerVars, extraVars>>

(***************************************************************************)
(* The permission policy on its own (defaultPermissionManager).            *)
(***************************************************************************)
PermToolNames == {"read_file", "write_file", "edit_file", "run_command", "web_fetch"}
PermModeInputs == ModeNames \cup {"bogus_mode"}

RequestPermission(toolName) ==
  LET r == requestPermission(permissionManager, toolName, now) IN
  /\ permissionManager' = r.pm
  /\ permOp' = << [ op |-> "requestPermission", toolName |-> toolName,
                    result |-> r.result, mode |-> permissionManager.currentMode,
                    at |-> now ] >>
  /\ UNCHANGED <<now, storeVars, routerVars, extraVars>>

SetMode(modeName) ==
  /\ permissionManager' = setMode(permissionManager, modeName)
  /\ permOp' = << [ op |-> "setMode", modeName |-> modeName,
                    before |-> permissionManager ] >>
  /\ UNCHANGED <<now, storeVars, routerVars, extraVars>>

ClearExpiredPermissions(timeout) ==
  /\ permissionManager' = clearExpiredPermissions(permissionManager, timeout, now)
  /\ permOp' = << [ op |-> "clearExpiredPermissions", timeout |-> timeout ] >>
  /\ UNCHANGED <<now, storeVars, routerVars, extraVars>>

PermNext ==
  \/ Tick
  \/ \E toolName \in PermToolNames : RequestPermission(toolName)
  \/ \E modeName \in PermModeInputs : SetMode(modeName)
  \/ \E timeout \in 0 .. MaxTime : ClearExpiredPermissions(timeout)

SpecPerm == Init /\ [][PermNext]_vars

(***************************************************************************)
(* The session store: capacity and life cycle.  Calls are atomic: each     *)
(* caller awaits its call before the next one is made.                     *)
(***************************************************************************)
\* What generateSessionId() can return: an id that no live session carries.
GenIds == {"g1", "g2"}
FreshIds(config) ==
  IF config.id = Undefined THEN GenIds \ MapKeys(sessions) ELSE {Undefined}

StoreIds == {"a"} \cup GenIds \cup {"unknown"}

\* The ids that lookups and updates are made on.
StoreTouchIds == {"a", "unknown"}

StoreCreateConfigs ==
  { [ id |-> i, mode |-> m, workingDirectory |-> Undefined, permissionMode |-> Undefined ] :
      i \in {Undefined, "a"}, m \in {Undefined, "plan"} }

StoreImportData ==
  { [ id |-> i, mode |-> Undefined, workingDirectory |-> Undefined,
      permissionMode |-> Undefined, createdAt |-> 0, lastActivity |-> 0,
      toolCallCount |-> 0, metadata |-> <<>> ] : i \in {Undefined, "a"} }

StoreUpdates ==
  { [ mode |-> m, workingDirectory |-> Undefined, permissionMode |-> Undefined ] :
      m \in {"plan"} }

CreateSession(config) ==
  \E gen \in FreshIds(config) :
    LET r == createSession(sessions, permissionManager, config, gen, now) IN
    /\ sessions' = r.sessions
    /\ permissionManager' = r.pm
    /\ emitted' = r.events
    /\ storeOp' = << [ op |-> "createSession", result |-> r.result ] >>
    /\ permOp' = <<>>
    /\ UNCHANGED <<now, routerVars, extraVars>>

ImportSession(sessionData) ==
  \E gen \in FreshIds(sessionData) :
    LET r == importSession(sessions, permissionManager, sessionData, gen, now) IN
    /\ sessions' = r.sessions
    /\ permissionManager' = r.pm
    /\ emitted' = r.events
    /\ storeOp' = << [ op |-> "importSession", result |-> r.result ] >>
    /\ permOp' = <<>>
    /\ UNCHANGED <<now, routerVars, extraVars>>

GetSession(sessionId) ==
  LET r == getSession(sessions, sessionId, now) IN
  /\ sessions' = r.sessions
  /\ emitted' = <<>>
  /\ storeOp' = << [ op |-> "getSession", sessionId |-> sessionId, result |-> r.result ] >>
  /\ permOp' = <<>>
  /\ UNCHANGED <<now, permissionManager, routerVars, extraVars>>

UpdateSession(sessionId, updates) ==
  LET r == updateSession(sessions, permissionManager, sessionId, updates, now) IN
  /\ sessions' = r.sessions
  /\ permissionManager' = r.pm
  /\ emitted' = r.events
  /\ storeOp' = << [ op |-> "updateSession", sessionId |-> sessionId, updates |-> updates,
                     result |-> r.result ] >>
  /\ permOp' = <<>>
  /\ UNCHANGED <<now, routerVars, extraVars>>

DestroySession(sessionId) ==
  LET r == destroySession(sessions, sessionId) IN
  /\ sessions' = r.sessions
  /\ emitted' = r.events
  /\ storeOp' = << [ op |-> "destroySession", sessionId |-> sessionId, result |-> r.result ] >>
  /\ permOp' = <<>>
  /\ UNCHANGED <<now, permissionManager, routerVars, extraVars>>

\* The interval timer of startCleanupInterval fires.
CleanupExpiredSessions ==
  LET r == cleanupExpiredSessions(sessions, now) IN
  /\ sessions' = r.sessions
  /\ emitted' = r.events
  /\ storeOp' = << [ op |-> "cleanupExpiredSessions", result |-> r.result ] >>
  /\ permOp' = <<>>
  /\ UNCHANGED <<now, permissionManager, routerVars, extraVars>>

StoreNext ==
  \/ Tick
  \/ \E config \in StoreCreateConfigs : CreateSession(config)
  \/ \E sessionData \in StoreImportData : ImportSession(sessionData)
  \/ \E sessionId \in StoreTouchIds : GetSession(sessionId)
  \/ \E sessionId \in StoreTouchIds, updates \in StoreUpdates : UpdateSession(sessionId, updates)
  \/ \E sessionId \in StoreIds : DestroySession(sessionId)
  \/ CleanupExpiredSessions

SpecStore == Init /\ [][StoreNext]_vars

(***************************************************************************)
(* The session store: what its sessions hold.  The same calls, with the    *)
(* tool-call counter, snapshots that carry any timestamps and counts, and  *)
(* a caller that writes to the object getSession gave it.                  *)
(***************************************************************************)
\* incrementToolCall is called on a session until its count is this.
MaxToolCalls == 2

DataCreateConfigs ==
  { [ id |-> i, mode |-> Undefined, workingDirectory |-> Undefined,
      permissionMode |-> Undefined ] : i \in {Undefined, "a"} }

\* Snapshots as exportSession writes them and as a caller may hand them in:
\* a field that is 0 is as good as absent.
DataImportSnapshots ==
  { [ id |-> "a", mode |-> Undefined, workingDirectory |-> Undefined,
      permissionMode |-> Undefined, createdAt |-> x[1], lastActivity |-> x[2],
      toolCallCount |-> x[3], metadata |-> <<>> ] :
      x \in { <<0, 0, 0>>, <<1, 1, 1>>, <<2, 1, 0>>, <<0, 0, -1>> } }

IncrementToolCall(sessionId) ==
  LET r == incrementToolCall(sessions, sessionId, now) IN
  /\ MapHas(sessions, sessionId) => MapGet(sessions, sessionId).toolCallCount < MaxToolCalls
  /\ sessions' = r.sessions
  /\ emitted' = <<>>
  /\ storeOp' = << [ op |-> "incrementToolCall", sessionId |-> sessionId, result |-> r.result ] >>
  /\ permOp' = <<>>
  /\ UNCHANGED <<now, permissionManager, routerVars, extraVars>>

\* The parts of the object getSession returns that its caller writes to.
SnapshotParts == {"mode", "toolCallCount", "metadata"}

\* The store after the caller of getSession(sessionId) wrote to `part` of the
\* object it was given.  { ...session } gives the object its own properties
\* and the session's own Map: a write to a property stays in the copy,
\* metadata.set on the copy's Map is seen through the stored session.
snapshotWrite(ss, sessionId, part) ==
  IF part = "metadata"
    THEN MapSet(ss, sessionId,
                [ MapGet(ss, sessionId) EXCEPT !.metadata = metadataSet(@, "note", "changed") ])
    ELSE ss

\* The caller of the getSession of the last step writes to what it got.
MutateSnapshot(part) ==
  /\ storeOp # <<>>
  /\ storeOp[1].op = "getSession"
  /\ storeOp[1].result # <<>>
  /\ sessions' = snapshotWrite(sessions, storeOp[1].sessionId, part)
  /\ emitted' = <<>>
  /\ storeOp' = << [ op |-> "snapshotWrite", sessionId |-> storeOp[1].sessionId,
                     part |-> part ] >>
  /\ permOp' = <<>>
  /\ UNCHANGED <<now, permissionManager, routerVars, extraVars>>

SessionDataNext ==
  \/ Tick
  \/ \E config \in DataCreateConfigs : CreateSession(config)
  \/ \E sessionData \in DataImportSnapshots : ImportSession(sessionData)
  \/ \E sessionId \in StoreTouchIds : GetSession(sessionId)
  \/ \E sessionId \in StoreTouchIds, updates \in StoreUpdates : UpdateSession(sessionId, updates)
  \/ \E sessionId \in StoreTouchIds : DestroySession(sessionId)
  \/ \E sessionId \in StoreTouchIds : IncrementToolCall(sessionId)
  \/ \E part \in SnapshotParts : MutateSnapshot(part)
  \/ CleanupExpiredSessions

SpecSessionData == Init /\ [][SessionDataNext]_vars

(***************************************************************************)
(* The session store: the calls made on one session by several callers.    *)
(* None of getSession, updateSession, incrementToolCall and                *)
(* setSessionMetadata has an await in its body: a call runs from its first *)
(* line to its return before any other code runs, so the interleavings of  *)
(* the callers are the orders of whole calls.                              *)
(***************************************************************************)
\* The callers share one session, made with an explicit id.
CallCreateConfigs ==
  { [ id |-> "a", mode |-> Undefined, workingDirectory |-> Undefined,
      permissionMode |-> Undefined ] }

\* Partial configs: every field absent, a field equal to what a new session
\* holds, a field that differs, two fields at once.
CallUpdates ==
  { [ mode |-> x[1], workingDirectory |-> x[2], permissionMode |-> x[3] ] :
      x \in { <<Undefined, Undefined, Undefined>>, <<"default", Undefined, Undefined>>,
              <<"plan", Undefined, Undefined>>, <<Undefined, "/cwd", Undefined>>,
              <<Undefined, "/tmp", Undefined>>, <<Undefined, Undefined, "conservative">>,
              <<"plan", "/tmp", Undefined>> } }

SetSessionMetadata(sessionId, key, value) ==
  LET r == setSessionMetadata(sessions, sessionId, key, value, now) IN
  /\ sessions' = r.sessions
  /\ emitted' = <<>>
  /\ storeOp' = << [ op |-> "setSessionMetadata", sessionId |-> sessionId, result |-> r.result ] >>
  /\ permOp' = <<>>
  /\ UNCHANGED <<now, permissionManager, routerVars, extraVars>>

SessionCallsNext ==
  \/ Tick
  \/ \E config \in CallCreateConfigs : CreateSession(config)
  \/ \E sessionId \in StoreTouchIds : GetSession(sessionId)
  \/ \E sessionId \in StoreTouchIds, updates \in CallUpdates : UpdateSession(sessionId, updates)
  \/ \E sessionId \in StoreTouchIds : IncrementToolCall(sessionId)
  \/ \E sessionId \in StoreTouchIds : SetSessionMetadata(sessionId, "note", "set")
  \/ \E sessionId \in StoreTouchIds : DestroySession(sessionId)

SpecSessionCalls == Init /\ [][SessionCallsNext]_vars

(***************************************************************************)
(* The session store: a session exported and imported again.               *)
(***************************************************************************)
ExportSession(sessionId) ==
  LET r == exportSession(sessions, sessionId, now) IN
  /\ sessions' = r.sessions
  /\ emitted' = <<>>
  /\ storeOp' = << [ op |-> "exportSession", sessionId |-> sessionId, result |-> r.result ] >>
  /\ permOp' = <<>>
  /\ UNCHANGED <<now, permissionManager, routerVars, extraVars>>

\* The snapshot as its holder hands it to importSession: with an isActive
\* property of its own making, or with none (TRUE stands for none).
Carrying(snapshot, isActive) ==
  [ id |-> snapshot.id, mode |-> snapshot.mode,
    workingDirectory |-> snapshot.workingDirectory,
    permissionMode |-> snapshot.permissionMode,
    createdAt |-> snapshot.createdAt, lastActivity |-> snapshot.lastActivity,
    toolCallCount |-> snapshot.toolCallCount, metadata |-> snapshot.metadata,
    isActive |-> isActive ]

\* The snapshot exported in the last step is imported.
ImportExported(isActive) ==
  /\ storeOp # <<>>
  /\ storeOp[1].op = "exportSession"
  /\ storeOp[1].result # <<>>
  /\ LET sessionData == Carrying(storeOp[1].result[1], isActive)
         r == importSession(sessions, permissionManager, sessionData, "g1", now) IN
     /\ sessions' = r.sessions
     /\ permissionManager' = r.pm
     /\ emitted' = r.events
     /\ storeOp' = << [ op |-> "importExported", sessionData |-> sessionData,
                        result |-> r.result ] >>
  /\ permOp' = <<>>
  /\ UNCHANGED <<now, routerVars, extraVars>>

\* Updates that give the session a mode, a directory and a permission mode
\* other than the defaults.
MigrationUpdates ==
  { [ mode |-> x[1], workingDirectory |-> x[2], permissionMode |-> x[3] ] :
      x \in { <<"plan", Undefined, Undefined>>, <<Undefined, "/tmp", Undefined>>,
              <<Undefined, Undefined, "conservative">> } }

SessionMigrationNext ==
  \/ Tick
  \/ \E config \in CallCreateConfigs : CreateSession(config)
  \/ \E sessionId \in StoreTouchIds, updates \in MigrationUpdates : UpdateSession(sessionId, updates)
  \/ \E sessionId \in StoreTouchIds : IncrementToolCall(sessionId)
  \/ \E sessionId \in StoreTouchIds : SetSessionMetadata(sessionId, "note", "set")
  \/ \E sessionId \in StoreTouchIds : DestroySession(sessionId)
  \/ \E sessionId \in StoreTouchIds : ExportSession(sessionId)
  \/ \E isActive \in BOOLEAN : ImportExported(isActive)

SpecSessionMigration == Init /\ [][SessionMigrationNext]_vars

(***************************************************************************)
(* The tool converter: mappings added and removed, calls and results       *)
(* converted.                                                              *)
(***************************************************************************)
\* The mappings a caller registers: read_file under another internal name
\* and without a transform; a second external name for FileRead, with a
\* transform that throws and a reverse transform; the default read_file
\* mapping with a reverse transform.
CustomMappings ==
  { [ fromACP |-> "read_file", toKode |-> "View", transform |-> "none",
      reverseTransform |-> "none" ],
    [ fromACP |-> "cat", toKode |-> "FileRead", transform |-> "throws",
      reverseTransform |-> "wrap" ],
    [ fromACP |-> "read_file", toKode |-> "FileRead", transform |-> "rename",
      reverseTransform |-> "wrap" ] }

ConverterNames == {"read_file", "run_command", "cat", "nonexistent_tool", Undefined}

PathInput == [ field \in {"path"} |-> "/x" ]

\* Ids a client supplies (none, or one that spells a tool name) and the id
\* generateToolId() makes: tool_<time>_<random>.
ClientToolIds == { <<>>, << "call-", "FileRead" >> }
GenToolIds == { << "tool_", "1" >> }

ConverterCalls ==
  { <<>> } \cup
  { << [ name |-> name, input |-> input, id |-> id ] >> :
      name \in ConverterNames, input \in { <<>>, << PathInput >> }, id \in ClientToolIds }

AddMapping(mapping) ==
  /\ toolConverter' = addMapping(toolConverter, mapping)
  /\ lastCall' = << [ op |-> "addMapping", mapping |-> mapping ] >>
  /\ UNCHANGED <<now, permissionManager, permOp, storeVars, routerVars, sweep, laterVars>>

RemoveMapping(acpToolName) ==
  /\ toolConverter' = removeMapping(toolConverter, acpToolName)
  /\ lastCall' = << [ op |-> "removeMapping", acpToolName |-> acpToolName ] >>
  /\ UNCHANGED <<now, permissionManager, permOp, storeVars, routerVars, sweep, laterVars>>

ConvertToKode(toolCall) ==
  \E gen \in GenToolIds :
    /\ lastCall' = << [ op |-> "convertToKode", toolCall |-> toolCall, gen |-> gen,
                        result |-> convertToKodeWith(toolConverter, toolCall, gen) ] >>
    /\ UNCHANGED <<now, permissionManager, permOp, storeVars, routerVars, sweep, toolConverter, laterVars>>

\* The tool ran for the call converted in the last step; its result, which
\* carries the id of that call, is converted back.
ConvertFromKode(isError) ==
  /\ lastCall # <<>>
  /\ lastCall[1].op = "convertToKode"
  /\ lastCall[1].result # <<>>
  /\ LET kodeCall == lastCall[1].result[1]
         result == [ tool_use_id |-> kodeCall.id, content |-> "out", is_error |-> isError ] IN
     lastCall' = << [ op |-> "convertFromKode", tool |-> kodeCall.name, result |-> result,
                      output |-> convertFromKode(toolConverter, result) ] >>
  /\ UNCHANGED <<now, permissionManager, permOp, storeVars, routerVars, sweep, toolConverter, laterVars>>

ConverterNext ==
  \/ \E mapping \in CustomMappings : AddMapping(mapping)
  \/ \E acpToolName \in ConverterNames \ {Undefined} : RemoveMapping(acpToolName)
  \/ \E toolCall \in ConverterCalls : ConvertToKode(toolCall)
  \/ \E isError \in { <<>>, << TRUE >>, << FALSE >> } : ConvertFromKode(isError)

SpecConverter == Init /\ [][ConverterNext]_vars

(***************************************************************************)
(* The session store: the idle sweep among other callers.                  *)
(* cleanupExpiredSessions selects its victims and then awaits              *)
(* destroySession once per victim: the first destroySession runs in the    *)
(* same step as the selection, and at each await the calls of other        *)
(* callers can run before the sweep goes on.                               *)
(***************************************************************************)
\* The interval timer fires: the sweep selects and runs to its first await.
SweepStart ==
  LET expired == ExpiredIds(sessions, now) IN
  /\ sweep = <<>>
  /\ IF expired = <<>>
       THEN /\ UNCHANGED <<sessions, sweep>>
            /\ emitted' = <<>>
            /\ storeOp' = << [ op |-> "cleanupExpiredSessions", result |-> 0 ] >>
       ELSE LET d == destroySession(sessions, Head(expired)) IN
            /\ sessions' = d.sessions
            /\ emitted' = d.events
            /\ sweep' = << [ expired |-> expired, remaining |-> Tail(expired), at |-> now ] >>
            /\ storeOp' = << [ op |-> "sweepDestroy", sessionId |-> Head(expired),
                               result |-> d.result ] >>
  /\ permOp' = <<>>
  /\ UNCHANGED <<now, permissionManager, routerVars, toolConverter, lastCall, laterVars>>

\* The sweep goes on after an await: the next destroySession, or the timeout
\* event and the return.
SweepResume ==
  /\ sweep # <<>>
  /\ IF sweep[1].remaining # <<>>
       THEN LET d == destroySession(sessions, Head(sweep[1].remaining)) IN
            /\ sessions' = d.sessions
            /\ emitted' = d.events
            /\ sweep' = << [ sweep[1] EXCEPT !.remaining = Tail(@) ] >>
            /\ storeOp' = << [ op |-> "sweepDestroy", sessionId |-> Head(sweep[1].remaining),
                               result |-> d.result ] >>
       ELSE /\ UNCHANGED sessions
            /\ emitted' = << [ type |-> "timeout", sessionId |-> "",
                               expiredSessions |-> sweep[1].expired ] >>
            /\ sweep' = <<>>
            /\ storeOp' = << [ op |-> "cleanupExpiredSessions",
                               result |-> Len(sweep[1].expired) ] >>
  /\ permOp' = <<>>
  /\ UNCHANGED <<now, permissionManager, routerVars, toolConverter, lastCall, laterVars>>

\* An updateSession that only touches the session: every field absent.
SweepUpdates ==
  { [ mode |-> Undefined, workingDirectory |-> Undefined, permissionMode |-> Undefined ] }

SweepNext ==
  \/ Tick
  \/ \E config \in DataCreateConfigs : CreateSession(config)
  \/ \E sessionId \in StoreTouchIds : GetSession(sessionId)
  \/ \E sessionId \in StoreTouchIds, updates \in SweepUpdates : UpdateSession(sessionId, updates)
  \/ \E sessionId \in StoreTouchIds : IncrementToolCall(sessionId)
  \/ SweepStart
  \/ SweepResume

SpecSweep == Init /\ [][SweepNext]_vars

(***************************************************************************)
(* The protocol router.  handleMessage runs to its first await in one      *)
(* step; a call suspended at an await sits in `calls` until the awaited    *)
(* promise settles: the model call (pc "model"), kodeIntegration's         *)
(* initialize (pc "init") or the tool execution (pc "exec").  A request id *)
(* is the slot of its call; a slot is free once its call has ended, its    *)
(* timer is gone and its execution has settled.                            *)
(***************************************************************************)
\* At most this many calls, timers and executions at once.
MaxInflight == 2

\* What generateSessionId() can return: an id that no live session carries
\* (new_session waits while every id of the pool is live).
AgentGenIds == {"s1"}

Message(type, sessionId, prompt, toolCall, command, modelName) ==
  [ type |-> type, sessionId |-> sessionId, prompt |-> prompt,
    toolCall |-> toolCall, command |-> command, modelName |-> modelName ]

ToolCall(name) == << [ name |-> name ] >>

\* The messages the connection delivers: every type, the fields present,
\* missing or naming what does not exist.
RouterMessages ==
  { Message(t, Undefined, Undefined, <<>>, Undefined, Undefined) :
      t \in {"initialize", "new_session", "list_models", "bogus_type"} }
  \cup { Message("prompt", x[1], x[2], <<>>, Undefined, Undefined) :
           x \in { <<Undefined, "hi">>, <<"s1", Undefined>>, <<"s1", "hi">>,
                   <<"s1", NotAString>>, <<"ghost", "hi">> } }
  \cup { Message("tool_call", x[1], Undefined, x[2], Undefined, Undefined) :
           x \in { <<Undefined, ToolCall("run_command")>>, <<"s1", <<>> >>,
                   <<"s1", ToolCall("run_command")>>, <<"s1", ToolCall("nonexistent_tool")>>,
                   <<"ghost", ToolCall("run_command")>> } }
  \cup { Message("model_command", Undefined, x[1], <<>>, x[2], x[3]) :
           x \in { <<Undefined, "switch", "gpt-4">>, <<Undefined, "switch", "no-such-model">>,
                   <<Undefined, "switch", Undefined>>, <<"hi", "ask", "gpt-4">>,
                   <<NotAString, "ask", "gpt-4">>, <<Undefined, "ask", "gpt-4">>,
                   <<"hi", "ask", "no-such-model">>, <<Undefined, "bogus_command", Undefined>> } }

\* What the connection's receive() yields: JSON.parse of a line.
RouterInbound == { <<>> } \cup { << message >> : message \in RouterMessages }

\* The slots a new call can take: the lowest one that is free (which slot a
\* call sits in is bookkeeping, the request ids are never compared).
FreeSlots ==
  LET free == (1 .. MaxInflight) \ (DOMAIN calls \cup timers \cup DOMAIN running) IN
  { slot \in free : \A other \in free : slot <= other }

MapPut(f, k, v) == [ x \in DOMAIN f \cup {k} |-> IF x = k THEN v ELSE f[x] ]
MapDrop(f, ks) == [ x \in DOMAIN f \ ks |-> f[x] ]

otherVars == <<now, permissionManager, permOp, storeVars, extraVars>>

\* A handler that ends without an await.
Ends(message, outcome) ==
  /\ returned' = { [ type |-> message.type, outcome |-> outcome ] }
  /\ UNCHANGED <<calls, timers, running>>

HandleInitialize(message) ==
  /\ Ends(message, Return([ type |-> "initialize_response", protocolVersion |-> 1,
                            availableModels |-> multiModelManager.modelProfiles ]))
  /\ collab' = {}
  /\ UNCHANGED <<agentSessions, multiModelManager, kodeIntegration>>

HandleNewSession(message) ==
  \E sessionId \in AgentGenIds \ DOMAIN agentSessions :
    /\ agentSessions' = MapPut(agentSessions, sessionId, [ id |-> sessionId, cancelled |-> FALSE ])
    /\ Ends(message, Return([ type |-> "new_session_response", sessionId |-> sessionId ]))
    /\ collab' = {}
    /\ UNCHANGED <<multiModelManager, kodeIntegration>>

HandlePrompt(message) ==
  LET check == handlePromptCheck(agentSessions, message)
      label == currentModelLabel(multiModelManager)
      resolved == executeWithModelResolve(multiModelManager, message.prompt, Undefined) IN
  /\ UNCHANGED <<agentSessions, multiModelManager, kodeIntegration>>
  /\ IF check # "ok"
       THEN Ends(message, Return(ErrorResponse(check))) /\ collab' = {}
     ELSE IF ~resolved.ok
       THEN Ends(message, catchModelFailure(resolved.error)) /\ collab' = {}
     ELSE \E slot \in FreeSlots :
            /\ calls' = MapPut(calls, slot, [ pc |-> "model", message |-> message,
                                              label |-> label, profile |-> resolved.profile ])
            /\ collab' = { [ op |-> "Invoke", name |-> resolved.profile ] }
            /\ returned' = {}
            /\ UNCHANGED <<timers, running>>

\* executeTool from its first line to the await of the execution.
StartExecution(slot, message) ==
  /\ kodeIntegration' = [ kodeIntegration EXCEPT !.initialized = TRUE,
                                                 !.pendingRequests = @ \cup {slot} ]
  /\ timers' = timers \cup {slot}
  /\ running' = MapPut(running, slot, message.toolCall[1].name)
  /\ calls' = MapPut(calls, slot, [ pc |-> "exec", message |-> message ])

HandleToolCall(message) ==
  LET check == handleToolCallCheck(agentSessions, message) IN
  /\ UNCHANGED <<agentSessions, multiModelManager>>
  /\ IF check # "ok"
       THEN Ends(message, Return(ErrorResponse(check))) /\ collab' = {}
                                                       /\ UNCHANGED kodeIntegration
     ELSE \E slot \in FreeSlots :
            /\ returned' = {}
            /\ IF kodeIntegration.initialized
                 THEN /\ StartExecution(slot, message)
                      /\ collab' = { [ op |-> "executeTool", name |-> message.toolCall[1].name ],
                                     [ op |-> "simulateToolExecution", name |-> message.toolCall[1].name ] }
                 ELSE /\ calls' = MapPut(calls, slot, [ pc |-> "init", message |-> message ])
                      /\ collab' = { [ op |-> "executeTool", name |-> message.toolCall[1].name ],
                                     [ op |-> "isCommandAvailable", name |-> "kode" ] }
                      /\ UNCHANGED <<kodeIntegration, timers, running>>

HandleModelCommand(message) ==
  /\ UNCHANGED <<agentSessions, kodeIntegration>>
  /\ IF message.command = "switch"
       THEN /\ collab' = {}
            /\ IF message.modelName # Undefined
                    /\ hasModelProfile(multiModelManager, message.modelName)
                 THEN /\ multiModelManager' = setCurrentModel(multiModelManager, message.modelName).mm
                      /\ Ends(message, Return([ type |-> "model_response", success |-> TRUE,
                                                currentModel |-> message.modelName ]))
                 ELSE /\ UNCHANGED multiModelManager
                      /\ Ends(message, Return([ type |-> "model_response", success |-> FALSE,
                                                availableModels |-> multiModelManager.modelProfiles ]))
     ELSE IF message.command = "ask"
       THEN /\ UNCHANGED multiModelManager
            /\ IF message.modelName = Undefined \/ message.prompt = Undefined
                 THEN Ends(message, Return(ErrorResponse("Missing modelName or prompt for ask command")))
                        /\ collab' = {}
               ELSE IF ~hasModelProfile(multiModelManager, message.modelName)
                 THEN Ends(message, Return(ErrorResponse("Model not found"))) /\ collab' = {}
               ELSE LET resolved == executeWithModelResolve(multiModelManager, message.prompt, message.modelName) IN
                    IF ~resolved.ok
                      THEN Ends(message, catchExpertFailure(resolved.error)) /\ collab' = {}
                      ELSE \E slot \in FreeSlots :
                             /\ calls' = MapPut(calls, slot,
                                  [ pc |-> "model", message |-> message,
                                    label |-> message.modelName, profile |-> resolved.profile ])
                             /\ collab' = { [ op |-> "Invoke", name |-> resolved.profile ] }
                             /\ returned' = {}
                             /\ UNCHANGED <<timers, running>>
     ELSE /\ UNCHANGED multiModelManager
          /\ Ends(message, Return(ErrorResponse("Unknown model command")))
          /\ collab' = {}

HandleListModels(message) ==
  /\ Ends(message, Return([ type |-> "models_response",
                            models |-> multiModelManager.modelProfiles,
                            currentModel |-> multiModelManager.currentModel ]))
  /\ collab' = {}
  /\ UNCHANGED <<agentSessions, multiModelManager, kodeIntegration>>

HandleDefault(message) ==
  /\ Ends(message, handleUnknown(message))
  /\ collab' = {}
  /\ UNCHANGED <<agentSessions, multiModelManager, kodeIntegration>>

\* message.type on null: the switch of handleMessage throws a TypeError.
HandleNull ==
  /\ returned' = { [ type |-> Undefined, outcome |-> Throw(NullTypeError) ] }
  /\ collab' = {}
  /\ UNCHANGED <<agentSessions, multiModelManager, kodeIntegration, calls, timers, running>>

\* handleMessage(message), to its return or to its first await.  `received`
\* is what JSON.parse made of the line: <<>> for null, <<m>> for an object m.
HandleMessage(received) ==
  /\ handling' = << received >>
  /\ UNCHANGED otherVars
  /\ IF received = <<>>
       THEN HandleNull
       ELSE LET message == received[1]
                h == handleMessageDispatch(message.type) IN
            \/ h = "initialize" /\ HandleInitialize(message)
            \/ h = "new_session" /\ HandleNewSession(message)
            \/ h = "prompt" /\ HandlePrompt(message)
            \/ h = "tool_call" /\ HandleToolCall(message)
            \/ h = "model_command" /\ HandleModelCommand(message)
            \/ h = "list_models" /\ HandleListModels(message)
            \/ h = "default" /\ HandleDefault(message)

\* A prompt handler that reads the current model after its await.
ModelDoneMutLateLabel(slot) ==
  /\ slot \in DOMAIN calls
  /\ calls[slot].pc = "model"
  /\ LET c == calls[slot]
         outcome ==
           IF c.message.type = "prompt"
             THEN Return([ type |-> "prompt_response", sessionId |-> c.message.sessionId,
                           model |-> currentModelLabel(multiModelManager),
                           servedBy |-> c.profile ])
             ELSE Return([ type |-> "model_response", success |-> TRUE,
                           model |-> c.message.modelName, servedBy |-> c.profile ]) IN
     returned' = { [ type |-> c.message.type, outcome |-> outcome ] }
  /\ calls' = MapDrop(calls, {slot})
  /\ handling' = <<>>
  /\ collab' = {}
  /\ UNCHANGED <<agentSessions, multiModelManager, kodeIntegration, timers, running, otherVars>>

\* simulateModelCall settles (its timer fires): the handler returns the text.
ModelDone(slot) ==
  /\ slot \in DOMAIN calls
  /\ calls[slot].pc = "model"
  /\ LET c == calls[slot]
         outcome ==
           IF c.message.type = "prompt"
             THEN Return([ type |-> "prompt_response", sessionId |-> c.message.sessionId,
                           model |-> c.label, servedBy |-> c.profile ])
             ELSE Return([ type |-> "model_response", success |-> TRUE,
                           model |-> c.message.modelName, servedBy |-> c.profile ]) IN
     returned' = { [ type |-> c.message.type, outcome |-> outcome ] }
  /\ calls' = MapDrop(calls, {slot})
  /\ handling' = <<>>
  /\ collab' = {}
  /\ UNCHANGED <<agentSessions, multiModelManager, kodeIntegration, timers, running, otherVars>>

\* kodeIntegration.initialize() settles inside executeTool: kode is there or it is not.
InitializeDone(slot, available) ==
  /\ slot \in DOMAIN calls
  /\ calls[slot].pc = "init"
  /\ IF available
       THEN /\ StartExecution(slot, calls[slot].message)
            /\ collab' = { [ op |-> "simulateToolExecution",
                             name |-> calls[slot].message.toolCall[1].name ] }
            /\ returned' = {}
       ELSE /\ returned' = { [ type |-> calls[slot].message.type,
                               outcome |-> catchToolFailure("Kode is not installed") ] }
            /\ calls' = MapDrop(calls, {slot})
            /\ collab' = {}
            /\ UNCHANGED <<kodeIntegration, timers, running>>
  /\ handling' = <<>>
  /\ UNCHANGED <<agentSessions, multiModelManager, otherVars>>

\* agent.initialize()
AgentInitialize(available) ==
  /\ ~kodeIntegration.initialized
  /\ kodeIntegration' = [ kodeIntegration EXCEPT !.initialized = available ]
  /\ handling' = <<>>
  /\ collab' = { [ op |-> "isCommandAvailable", name |-> "kode" ] }
  /\ returned' = {}
  /\ UNCHANGED <<agentSessions, multiModelManager, calls, timers, running, otherVars>>

\* executeToolInternal settles with a result: the .then of executeTool.
ExecutionDone(requestId, isError) ==
  /\ requestId \in DOMAIN running
  /\ isError \in simulateToolExecution(running[requestId])
  /\ running' = MapDrop(running, {requestId})
  /\ timers' = timers \ {requestId}
  /\ kodeIntegration' = [ kodeIntegration EXCEPT !.pendingRequests = @ \ {requestId} ]
  /\ IF requestId \in DOMAIN calls
       THEN /\ returned' = { [ type |-> calls[requestId].message.type,
                               outcome |-> Return([ type |-> "tool_call_response",
                                                    sessionId |-> calls[requestId].message.sessionId,
                                                    result |-> [ type |-> "tool_result",
                                                                 is_error |-> isError ] ]) ] }
            /\ calls' = MapDrop(calls, {requestId})
       ELSE /\ returned' = {}
            /\ UNCHANGED calls
  /\ handling' = <<>>
  /\ collab' = {}
  /\ UNCHANGED <<agentSessions, multiModelManager, otherVars>>

\* ExecutionTimeout with a timer callback that rejects and leaves the entry.
ExecutionTimeoutMutNoDelete(requestId) ==
  /\ requestId \in timers
  /\ timers' = timers \ {requestId}
  /\ IF requestId \in DOMAIN calls
       THEN /\ returned' = { [ type |-> calls[requestId].message.type,
                               outcome |-> catchToolFailure("Tool execution timeout") ] }
            /\ calls' = MapDrop(calls, {requestId})
       ELSE /\ returned' = {}
            /\ UNCHANGED calls
  /\ handling' = <<>>
  /\ collab' = {}
  /\ UNCHANGED <<agentSessions, multiModelManager, kodeIntegration, running, otherVars>>

\* The 5-minute timer of executeTool fires.
ExecutionTimeout(requestId) ==
  /\ requestId \in timers
  /\ timers' = timers \ {requestId}
  /\ kodeIntegration' = [ kodeIntegration EXCEPT !.pendingRequests = @ \ {requestId} ]
  /\ IF requestId \in DOMAIN calls
       THEN /\ returned' = { [ type |-> calls[requestId].message.type,
                               outcome |-> catchToolFailure("Tool execution timeout") ] }
            /\ calls' = MapDrop(calls, {requestId})
       ELSE /\ returned' = {}
            /\ UNCHANGED calls
  /\ handling' = <<>>
  /\ collab' = {}
  /\ UNCHANGED <<agentSessions, multiModelManager, running, otherVars>>

\* A cleanup that rejects the pending requests and leaves them in the map.
CleanupMutKeepsPending ==
  LET rejected == { slot \in DOMAIN calls :
                      calls[slot].pc = "exec" /\ slot \in kodeIntegration.pendingRequests } IN
  /\ agentSessions' = <<>>
  /\ kodeIntegration' = [ kodeIntegration EXCEPT !.initialized = FALSE ]
  /\ returned' = { [ type |-> calls[slot].message.type,
                     outcome |-> catchToolFailure("Kode integration shutting down") ] :
                   slot \in rejected }
  /\ calls' = MapDrop(calls, rejected)
  /\ handling' = <<>>
  /\ collab' = {}
  /\ UNCHANGED <<multiModelManager, timers, running, otherVars>>

\* agent.cleanup(): the sessions are marked cancelled and dropped, the
\* pending requests rejected and dropped (their timers stay armed).
Cleanup ==
  LET rejected == { slot \in DOMAIN calls :
                      calls[slot].pc = "exec" /\ slot \in kodeIntegration.pendingRequests } IN
  /\ agentSessions' = <<>>
  /\ kodeIntegration' = [ initialized |-> FALSE, pendingRequests |-> {} ]
  /\ returned' = { [ type |-> calls[slot].message.type,
                     outcome |-> catchToolFailure("Kode integration shutting down") ] :
                   slot \in rejected }
  /\ calls' = MapDrop(calls, rejected)
  /\ handling' = <<>>
  /\ collab' = {}
  /\ UNCHANGED <<multiModelManager, timers, running, otherVars>>

RouterNext ==
  \/ \E received \in RouterInbound : HandleMessage(received)
  \/ \E slot \in 1 .. MaxInflight : ModelDone(slot)
  \/ \E slot \in 1 .. MaxInflight, available \in BOOLEAN : InitializeDone(slot, available)
  \/ \E available \in BOOLEAN : AgentInitialize(available)
  \/ \E requestId \in 1 .. MaxInflight, isError \in BOOLEAN : ExecutionDone(requestId, isError)
  \/ \E requestId \in 1 .. MaxInflight : ExecutionTimeout(requestId)
  \/ Cleanup

SpecRouter == Init /\ [][RouterNext]_vars

\* The router serving sessions and tool calls only, with its timers: a timer
\* armed by setTimeout fires unless it is cleared first, whatever the
\* execution it guards does.
ToolCallInbound ==
  { << message >> : message \in { m \in RouterMessages : m.type \in {"new_session", "tool_call"} } }

ToolCallNext ==
  \/ \E received \in ToolCallInbound : HandleMessage(received)
  \/ \E slot \in 1 .. MaxInflight, available \in BOOLEAN : InitializeDone(slot, available)
  \/ \E available \in BOOLEAN : AgentInitialize(available)
  \/ \E requestId \in 1 .. MaxInflight, isError \in BOOLEAN : ExecutionDone(requestId, isError)
  \/ \E requestId \in 1 .. MaxInflight : ExecutionTimeout(requestId)
  \/ Cleanup

SpecToolCalls ==
  /\ Init
  /\ [][ToolCallNext]_vars
  /\ \A requestId \in 1 .. MaxInflight : WF_vars(ExecutionTimeout(requestId))

(***************************************************************************)
(* Claims about the permission policy.                                     *)
(***************************************************************************)
Approves(modeName, toolName) ==
  "*" \in modes[modeName].autoApprove \/ toolName \in modes[modeName].autoApprove

Denies(modeName, toolName) ==
  "*" \in modes[modeName].autoDeny \/ toolName \in modes[modeName].autoDeny

\* C4: right after setMode(m) for a known mode m the decision cache is empty
\* and the active mode is m, so that requestPermission(t) answers true for
\* every t that m auto-approves and false for every t that m auto-denies,
\* whatever the cache held under the previous mode.
C4_SetModeClearsDecisions ==
  \A i \in DOMAIN permOp :
    (permOp[i].op = "setMode" /\ permOp[i].modeName \in ModeNames) =>
      /\ permissionManager.currentMode = permOp[i].modeName
      /\ permissionManager.permissions = <<>>
      /\ \A t \in PermToolNames :
           LET r == requestPermission(permissionManager, t, now) IN
           /\ Approves(permOp[i].modeName, t) => r.result = TRUE
           /\ (Denies(permOp[i].modeName, t) /\ ~Approves(permOp[i].modeName, t)) => r.result = FALSE

\* A tool approved and cached under bypass_permissions, then the switch to plan.
C4_Witness ==
  /\ permOp # <<>>
  /\ permOp[1].op = "setMode"
  /\ permOp[1].modeName = "plan"
  /\ permOp[1].before.currentMode = "bypass_permissions"
  /\ "run_command" \in DOMAIN permOp[1].before.permissions
  /\ permOp[1].before.permissions["run_command"].allowed = TRUE
  /\ requestPermission(permissionManager, "run_command", now).result = FALSE

\* The decisions of the four built-in modes, as the specification lists them.
ExpectedDecision(modeName, toolName) ==
  CASE modeName = "default" -> toolName \in {"read_file", "glob", "search"}
    [] modeName = "accept_edits" -> toolName \in {"read_file", "glob", "search"}
    [] modeName = "bypass_permissions" -> TRUE
    [] modeName = "plan" -> FALSE

ExpectedReason(modeName, toolName) ==
  CASE ExpectedDecision(modeName, toolName) -> "Auto-approved by mode"
    [] modeName = "plan" -> "Auto-denied by mode"
    [] modeName = "default" /\ toolName \in {"write_file", "edit_file", "run_command"} -> "Auto-denied by mode"
    [] modeName = "accept_edits" /\ toolName = "run_command" -> "Auto-denied by mode"
    [] OTHER -> "Requires explicit approval"

C6_UnknownModeChangesNothing ==
  \A i \in DOMAIN permOp :
    (permOp[i].op = "setMode" /\ permOp[i].modeName \notin ModeNames) =>
      permissionManager = permOp[i].before

\* An unknown name given while decisions are cached under a non-default mode.
C6_Witness ==
  /\ permOp # <<>>
  /\ permOp[1].op = "setMode"
  /\ permOp[1].modeName = "bogus_mode"
  /\ permOp[1].before.currentMode = "accept_edits"
  /\ permOp[1].before.permissions # <<>>

(***************************************************************************)
(* Claims about the session store.                                         *)
(***************************************************************************)
\* C2: the store never holds more sessions than the cap.
C2_AtMostCap == Len(sessions) <= maxSessions

Expired(e, t) == ~e.isActive \/ (t - e.lastActivity) >= defaultSessionTimeout

HasEvent(evs, type) == \E i \in DOMAIN evs : evs[i].type = type

\* C3: a createSession made with the store at or above the cap first
\* destroys the idle and inactive sessions; if the store is then still at or
\* above the cap the call fails with the capacity error, no session is added,
\* no created event is emitted and the permission manager is as before; if
\* the sweep brought the store below the cap, the session is created.
C3_CreateAtCap ==
  [][ \A i \in DOMAIN storeOp' :
        (storeOp'[i].op = "createSession" /\ Len(sessions) >= maxSessions) =>
          LET kept == SelectSeq(sessions, LAMBDA e : ~Expired(e, now))
              res == storeOp'[i].result IN
          /\ \A k \in DOMAIN sessions :
               Expired(sessions[k], now) =>
                 (Len(sessions) - Len(kept) > 0 /\ HasEvent(emitted', "timeout")
                   /\ \A n \in DOMAIN sessions' : sessions'[n] # sessions[k])
          /\ IF Len(kept) >= maxSessions
               THEN /\ res.ok = FALSE
                    /\ res.error = "Maximum session limit reached"
                    /\ sessions' = kept
                    /\ ~HasEvent(emitted', "created")
                    /\ permissionManager' = permissionManager
               ELSE /\ res.ok = TRUE
                    /\ MapHas(sessions', res.id)
                    /\ MapGet(sessions', res.id).createdAt = now
                    /\ MapKeys(sessions') = MapKeys(kept) \cup {res.id}
                    /\ emitted'[Len(emitted')].type = "created"
                    /\ emitted'[Len(emitted')].sessionId = res.id
    ]_vars

\* A createSession above the cap whose sweep evicted a session and still
\* left the store at the cap: the call failed.
C3_Witness ==
  /\ storeOp # <<>>
  /\ storeOp[1].op = "createSession"
  /\ storeOp[1].result.ok = FALSE
  /\ HasEvent(emitted, "timeout")
  /\ Len(sessions) >= maxSessions

(***************************************************************************)
(* Claims about the protocol router.                                       *)
(***************************************************************************)
\* C1: the execution collaborator is invoked for a tool only after
\* requestPermission was called for that tool's name and returned true (the
\* permission manager holds that decision), and a tool the active mode
\* denies is never executed.
C1_ExecuteOnlyWhenPermitted ==
  \A c \in collab :
    c.op = "executeTool" =>
      /\ c.name \in DOMAIN permissionManager.permissions
      /\ permissionManager.permissions[c.name].allowed
      /\ ~Denies(permissionManager.currentMode, c.name)

\* The response type that answers a message type.
ResponseType(type) ==
  CASE type = "initialize" -> "initialize_response"
    [] type = "new_session" -> "new_session_response"
    [] type = "prompt" -> "prompt_response"
    [] type = "tool_call" -> "tool_call_response"
    [] type = "model_command" -> "model_response"
    [] type = "list_models" -> "models_response"
    [] OTHER -> "error"

Answers(r) ==
  /\ r.outcome.kind = "return"
  /\ r.outcome.response.type \in {ResponseType(r.type), "error"}

\* A call suspended at an await has what it awaits outstanding, so it ends
\* (once: ending removes it from `calls`).
AwaitsOutstanding ==
  \A slot \in DOMAIN calls :
    calls[slot].pc = "exec" =>
      slot \in timers /\ slot \in DOMAIN running /\ slot \in kodeIntegration.pendingRequests

\* handleMessage(received) either ends in this step with one outcome or
\* leaves one more suspended call.
OneOutcomeOrSuspended ==
  handling' # <<>> =>
    \/ Cardinality(returned') = 1 /\ calls' = calls
    \/ /\ returned' = {}
       /\ \E slot \in (1 .. MaxInflight) \ DOMAIN calls :
            /\ DOMAIN calls' = DOMAIN calls \cup {slot}
            /\ \A other \in DOMAIN calls : calls'[other] = calls[other]

\* C7: handleMessage returns exactly one response for every inbound message
\* and never throws: a recognised type gets its response type or an error
\* response, an unrecognised type gets an error response.
C7_OneResponseNeverThrows ==
  /\ [](\A r \in returned : Answers(r))
  /\ []AwaitsOutstanding
  /\ [][OneOutcomeOrSuspended]_vars

\* C7, for the inbound messages that are objects: the only outcome that is
\* not a response is the TypeError for null.
C7_ObjectMessagesAnswered ==
  /\ [](\A r \in returned : Answers(r) \/ r.outcome = Throw(NullTypeError))
  /\ []AwaitsOutstanding
  /\ [][OneOutcomeOrSuspended]_vars

\* The object message that handleMessage was called with in this step, if any.
HandledObject ==
  IF handling' # <<>> /\ handling'[1] # <<>> THEN { handling'[1][1] } ELSE {}

NotLive(ss, sessionId) == sessionId \notin DOMAIN ss \/ ss[sessionId].cancelled

IsErrorResponse(rs, type) ==
  /\ Cardinality(rs) = 1
  /\ \A r \in rs : /\ r.type = type
                   /\ r.outcome.kind = "return"
                   /\ r.outcome.response.type = "error"

\* C8: a prompt message for a session id that is not live, or whose session
\* is marked cancelled, is answered with an error response in the same step
\* and no model invocation is attempted.
C8_DeadSessionPromptFails ==
  [][ \A message \in HandledObject :
        ( /\ message.type = "prompt"
          /\ NotLive(agentSessions, message.sessionId) )
        => /\ IsErrorResponse(returned', "prompt")
           /\ \A c \in collab' : c.op # "Invoke"
           /\ calls' = calls ]_vars

\* A prompt that named a session that does not exist, in a state with a live session.
C8_Witness ==
  /\ returned = { [ type |-> "prompt", outcome |-> Return(ErrorResponse("Session not found")) ] }
  /\ collab = {}
  /\ DOMAIN agentSessions # {}

\* C9: a tool_call message whose toolCall.name has no entry in the mapping
\* table is answered with an error response, the execution collaborator is
\* not invoked for it, and nothing is thrown.
C9_UnmappedToolRejected ==
  [][ \A message \in HandledObject :
        ( /\ message.type = "tool_call"
          /\ message.toolCall # <<>>
          /\ convertToKode(message.toolCall) = Undefined )
        => /\ IsErrorResponse(returned', "tool_call")
           /\ \A c \in collab' : c.op # "executeTool"
           /\ calls' = calls ]_vars

MissingFields(message) ==
  \/ message.type = "prompt"
       /\ (message.sessionId = Undefined \/ message.prompt = Undefined)
  \/ message.type = "tool_call"
       /\ (message.sessionId = Undefined \/ message.toolCall = <<>>)

\* C10: a prompt message missing sessionId or prompt, or a tool_call message
\* missing sessionId or toolCall, is answered with an error response; the
\* session map, the model registry and the pending-request map are
\* unchanged and no collaborator is called.
C10_MissingFieldsChangeNothing ==
  [][ \A message \in HandledObject :
        MissingFields(message)
        => /\ IsErrorResponse(returned', message.type)
           /\ UNCHANGED <<agentSessions, multiModelManager, kodeIntegration>>
           /\ UNCHANGED <<calls, timers, running>>
           /\ collab' = {} ]_vars

\* A tool_call without its toolCall, refused while a session is live and a
\* request is pending.
C10_Witness ==
  /\ returned = { [ type |-> "tool_call",
                    outcome |-> Return(ErrorResponse("Missing sessionId or toolCall")) ] }
  /\ DOMAIN agentSessions # {}
  /\ kodeIntegration.pendingRequests # {}

(***************************************************************************)
(* Claims about tool execution and its pending requests.                   *)
(***************************************************************************)
\* The responses handleToolCall gives before it calls the execution collaborator.
ToolCallRefusals ==
  { ErrorResponse("Missing sessionId or toolCall"), ErrorResponse("Session not found") }

\* C11: when the execution collaborator throws or fails while serving a
\* tool_call (a failure to initialise the execution engine included), the
\* caller of handleMessage gets a tool_call_response (whose result has
\* is_error = TRUE): a tool_call that was not refused for its fields or its
\* session ends with a tool_call_response, never with a raw fault and never
\* with another kind of message.
C11_FailureBecomesErrorResult ==
  \A r \in returned :
    r.type = "tool_call" =>
      /\ r.outcome.kind = "return"
      /\ \/ r.outcome.response \in ToolCallRefusals
         \/ r.outcome.response.type = "tool_call_response"

\* The requests whose caller is still suspended on executeTool's promise.
Unsettled == { slot \in DOMAIN calls : calls[slot].pc = "exec" }

\* The timer of a request fires in this step (the execution has not returned).
TimerFires(requestId) ==
  requestId \in timers /\ requestId \notin timers' /\ running' = running

\* C12: every request added to the pending-request map is eventually removed
\* from it, at the deadline at the latest even if the execution never
\* returns; at the deadline the caller gets an error response; and a request
\* whose promise has settled is never still in the map.
C12_PendingEventuallyRemoved ==
  /\ \A requestId \in 1 .. MaxInflight :
       []<>(requestId \notin kodeIntegration.pendingRequests)
  /\ [](kodeIntegration.pendingRequests \subseteq Unsettled)
  /\ [][ \A requestId \in Unsettled :
           TimerFires(requestId)
           => /\ requestId \notin kodeIntegration'.pendingRequests
              /\ requestId \notin Unsettled'
              /\ IsErrorResponse(returned', "tool_call") ]_vars

\* The deadline has just answered one request while another is still pending
\* with its execution running.
C12_Witness ==
  /\ returned = { [ type |-> "tool_call", outcome |-> catchToolFailure("Tool execution timeout") ] }
  /\ kodeIntegration.pendingRequests # {}
  /\ \E requestId \in 1 .. MaxInflight :
       requestId \in DOMAIN running /\ requestId \notin timers

\* C13: sessions created through the router are sessions of the SessionManager
\* and count against its cap: every session the router serves is held by the
\* store, there are never more of them than maxSessions, and a new_session
\* that would exceed the cap gets an error response and creates nothing.
C13_RouterSessionsAreStoreSessions ==
  /\ \A sessionId \in DOMAIN agentSessions : MapHas(sessions, sessionId)
  /\ Cardinality(DOMAIN agentSessions) <= maxSessions

(***************************************************************************)
(* Claims about the sessions the store holds.                              *)
(***************************************************************************)
\* The sessions a createSession made now finds live and does not sweep.
Survivors ==
  IF Len(sessions) >= maxSessions
    THEN SelectSeq(sessions, LAMBDA e : ~Expired(e, now))
    ELSE sessions

\* C14: createSession with an explicit id that is already live fails with a
\* collision error and leaves the existing session (mode, counters,
\* metadata, timestamps) as it was: a createSession that succeeds returns an
\* id that no live session carried, and every live session is still there
\* unchanged after the call, so ids stay unique among live sessions.
C14_LiveIdNeverReused ==
  [][ \A i \in DOMAIN storeOp' :
        storeOp'[i].op = "createSession" =>
          /\ \A k \in DOMAIN Survivors :
               \E n \in DOMAIN sessions' : sessions'[n] = Survivors[k]
          /\ storeOp'[i].result.ok =>
               \A k \in DOMAIN Survivors : Survivors[k].id # storeOp'[i].result.id ]_vars

\* C15: the store size equals the number of successful creates minus the
\* number of successful destroys, step by step: below the cap a createSession
\* succeeds and adds one session, a destroySession that returns true removes
\* one and one that returns false removes none; at the cap a createSession
\* succeeds only after reclaiming at least one expired session and otherwise
\* fails with the capacity error, adding nothing.
C15_SizeCountsCreatesAndDestroys ==
  [][ \A i \in DOMAIN storeOp' :
        /\ storeOp'[i].op = "createSession" =>
             IF Len(sessions) < maxSessions
               THEN storeOp'[i].result.ok /\ Len(sessions') = Len(sessions) + 1
             ELSE IF storeOp'[i].result.ok
               THEN Len(Survivors) < Len(sessions) /\ Len(sessions') = Len(Survivors) + 1
               ELSE /\ storeOp'[i].result.error = "Maximum session limit reached"
                    /\ Len(sessions') = Len(Survivors)
        /\ storeOp'[i].op = "destroySession" =>
             Len(sessions') = Len(sessions) - (IF storeOp'[i].result THEN 1 ELSE 0) ]_vars

\* C16: every session in the store has lastActivity >= createdAt, in every
\* reachable state, sessions brought in by importSession included.
C16_ActivityNotBeforeCreation ==
  \A k \in DOMAIN sessions : sessions[k].lastActivity >= sessions[k].createdAt

\* C17: as long as a session with an id stays live in the store, its
\* toolCallCount never decreases, whatever is called, createSession and
\* importSession with that same id included.
C17_ToolCallCountNeverDecreases ==
  [][ \A sessionId \in MapKeys(sessions) \cap MapKeys(sessions') :
        MapGet(sessions', sessionId).toolCallCount >= MapGet(sessions, sessionId).toolCallCount ]_vars

\* C18: destroySession on a live id marks the session inactive, removes it
\* from the store in the same step and emits one destroyed event; in every
\* reachable state every session the store holds has isActive = TRUE, and so
\* has every session a lookup returns.
C18_NoInactiveSessionStored ==
  /\ [](\A k \in DOMAIN sessions : sessions[k].isActive)
  /\ [](\A i \in DOMAIN storeOp :
          (storeOp[i].op = "getSession" /\ storeOp[i].result # <<>>) =>
            storeOp[i].result[1].isActive)
  /\ [][ \A i \in DOMAIN storeOp' :
           (storeOp'[i].op = "destroySession" /\ MapHas(sessions, storeOp'[i].sessionId)) =>
             /\ storeOp'[i].result = TRUE
             /\ ~MapHas(sessions', storeOp'[i].sessionId)
             /\ Len(sessions') = Len(sessions) - 1
             /\ Len(emitted') = 1
             /\ emitted'[1].type = "destroyed"
             /\ emitted'[1].sessionId = storeOp'[i].sessionId
             /\ emitted'[1].isActive = FALSE ]_vars

\* A live session has just been destroyed, with its tool calls counted, while
\* another session stays in the store.
C18_Witness ==
  /\ storeOp # <<>>
  /\ storeOp[1].op = "destroySession"
  /\ storeOp[1].result = TRUE
  /\ emitted # <<>>
  /\ emitted[1].type = "destroyed"
  /\ sessions # <<>>
  /\ ~MapHas(sessions, storeOp[1].sessionId)

\* C19: the object getSession returns is a snapshot: a write to any part of
\* it, its metadata mapping included, never changes the session the store
\* holds (and so nothing a later getSession, getSessionMetadata or
\* exportSession returns).
C19_SnapshotWritesStayOutside ==
  [][ \A i \in DOMAIN storeOp' :
        storeOp'[i].op = "snapshotWrite" => sessions' = sessions ]_vars

\* What a call returns for an id that is not in the store.
NotFoundResult(op) == IF op = "incrementToolCall" THEN 0 ELSE FALSE

\* A call on an id that is not in the store returns its not-found value,
\* creates and changes no session and emits no event.
NotFoundChangesNothing ==
  \A i \in DOMAIN storeOp' :
    (storeOp'[i].op \in {"incrementToolCall", "updateSession", "destroySession"}
       /\ ~MapHas(sessions, storeOp'[i].sessionId)) =>
      /\ storeOp'[i].result = NotFoundResult(storeOp'[i].op)
      /\ sessions' = sessions
      /\ emitted' = <<>>
      /\ permissionManager' = permissionManager

\* C20: for an id that is not in the store, incrementToolCall returns 0 and
\* updateSession and destroySession return false, and in each case no session
\* is created, no stored session changes and no event is emitted; for a live
\* id incrementToolCall returns at least 1, so 0 always means not found.
C20_ZeroMeansNotFound ==
  [][ /\ NotFoundChangesNothing
      /\ \A i \in DOMAIN storeOp' :
           (storeOp'[i].op = "incrementToolCall" /\ MapHas(sessions, storeOp'[i].sessionId)) =>
             storeOp'[i].result >= 1 ]_vars

(***************************************************************************)
(* Claims about the calls made on one session.                             *)
(***************************************************************************)
\* The calls of the last step that were made on a session the store held.
CallsOnLive(ops) ==
  { i \in DOMAIN storeOp' : storeOp'[i].op \in ops /\ MapHas(sessions, storeOp'[i].sessionId) }

\* C21: for a live session with count c, incrementToolCall calls interleaved
\* with each other and with getSession, updateSession and setSessionMetadata
\* on the same id return c+1, c+2, ... and leave the count at the last value
\* returned: each incrementToolCall returns one more than the count it found
\* and stores it, the other calls leave the count as it is, and getSession
\* returns the session as it is stored after the call (no lost update, no
\* read of a partly updated session).
C21_IncrementsAreNotLost ==
  [][ \A i \in CallsOnLive({"incrementToolCall", "getSession", "updateSession",
                            "setSessionMetadata"}) :
        LET o == storeOp'[i]
            before == MapGet(sessions, o.sessionId) IN
        /\ MapHas(sessions', o.sessionId)
        /\ LET after == MapGet(sessions', o.sessionId) IN
           /\ IF o.op = "incrementToolCall"
                THEN o.result = before.toolCallCount + 1 /\ after.toolCallCount = o.result
                ELSE after.toolCallCount = before.toolCallCount
           /\ o.op = "getSession" => o.result = << after >>
           /\ o.op = "incrementToolCall" =>
                after = [ before EXCEPT !.toolCallCount = o.result, !.lastActivity = now ] ]_vars

\* The second incrementToolCall on a session whose mode and metadata other
\* callers have changed since it was made.
C21_Witness ==
  /\ storeOp # <<>>
  /\ storeOp[1].op = "incrementToolCall"
  /\ storeOp[1].result = 2
  /\ MapHas(sessions, "a")
  /\ MapGet(sessions, "a").mode = "plan"
  /\ MapGet(sessions, "a").metadata # <<>>
  /\ MapGet(sessions, "a").lastActivity > MapGet(sessions, "a").createdAt

\* The field is present in the partial config and differs from the stored one.
Differs(updates, session, field) ==
  updates[field] # Undefined /\ updates[field] # session[field]

Applied(updates, session, field) ==
  IF Differs(updates, session, field) THEN updates[field] ELSE session[field]

\* C22: updateSession on a live id applies only the fields that are present
\* and differ from the stored value; a mode change sets the permission
\* policy's mode and emits one updated event followed by one mode_changed
\* event; a change to other fields only emits one updated event; an update
\* whose fields are absent or equal to the stored values emits no event and
\* changes no field except lastActivity.
C22_UpdateAppliesWhatDiffers ==
  [][ \A i \in CallsOnLive({"updateSession"}) :
        LET o == storeOp'[i]
            u == o.updates
            before == MapGet(sessions, o.sessionId) IN
        /\ o.result = TRUE
        /\ MapHas(sessions', o.sessionId)
        /\ MapGet(sessions', o.sessionId) =
             [ before EXCEPT !.mode = Applied(u, before, "mode"),
                             !.workingDirectory = Applied(u, before, "workingDirectory"),
                             !.permissionMode = Applied(u, before, "permissionMode"),
                             !.lastActivity = now ]
        /\ IF Differs(u, before, "mode")
             THEN /\ permissionManager'.currentMode = u.mode
                  /\ Len(emitted') = 2
                  /\ emitted'[1].type = "updated" /\ emitted'[1].sessionId = o.sessionId
                  /\ emitted'[2] = [ type |-> "mode_changed", sessionId |-> o.sessionId,
                                     oldMode |-> before.mode, newMode |-> u.mode ]
           ELSE IF Differs(u, before, "workingDirectory") \/ Differs(u, before, "permissionMode")
             THEN /\ permissionManager' = permissionManager
                  /\ Len(emitted') = 1
                  /\ emitted'[1].type = "updated" /\ emitted'[1].sessionId = o.sessionId
             ELSE /\ permissionManager' = permissionManager
                  /\ emitted' = <<>> ]_vars

\* A mode change and a directory change in one call, on a session with tool
\* calls counted, while the policy was in another mode.
C22_Witness ==
  /\ storeOp # <<>>
  /\ storeOp[1].op = "updateSession"
  /\ storeOp[1].updates.mode = "plan" /\ storeOp[1].updates.workingDirectory = "/tmp"
  /\ Len(emitted) = 2
  /\ emitted[2].type = "mode_changed" /\ emitted[2].oldMode = "default"
  /\ permissionManager.currentMode = "plan"
  /\ MapGet(sessions, "a").toolCallCount > 0

(***************************************************************************)
(* Claims about the idle sweep.                                            *)
(***************************************************************************)
\* The ids of the sessions that are inactive or idle for the timeout or
\* longer at time t, in the store's order.
IdleIds(ss, t) ==
  LET idle == SelectSeq(ss, LAMBDA e : Expired(e, t)) IN
  [ k \in DOMAIN idle |-> idle[k].id ]

\* The sweep that is under way after this step, or that ended in it.
SweepSelected ==
  IF sweep' # <<>> THEN sweep'[1].expired
  ELSE IF sweep # <<>> THEN sweep[1].expired
  ELSE <<>>

\* C23: an idle sweep run at time now destroys exactly the sessions with
\* isActive false or now - lastActivity >= timeout (the boundary included)
\* and leaves every other session in the store; it emits one timeout event
\* listing exactly the evicted ids if at least one was evicted and no
\* timeout event otherwise.
C23_SweepEvictsExactlyTheIdle ==
  [][ /\ (sweep = <<>> /\ sweep' # <<>>) =>
           /\ sweep'[1].expired = IdleIds(sessions, now)
           /\ sweep'[1].remaining = Tail(sweep'[1].expired)
      /\ \A i \in DOMAIN storeOp' :
           /\ (storeOp'[i].op = "cleanupExpiredSessions" /\ sweep = <<>>) =>
                /\ IdleIds(sessions, now) = <<>>
                /\ storeOp'[i].result = 0
                /\ sessions' = sessions
                /\ emitted' = <<>>
           /\ (storeOp'[i].op = "cleanupExpiredSessions" /\ sweep # <<>>) =>
                /\ sweep[1].remaining = <<>>
                /\ storeOp'[i].result = Len(sweep[1].expired)
                /\ sessions' = sessions
                /\ emitted' = << [ type |-> "timeout", sessionId |-> "",
                                   expiredSessions |-> sweep[1].expired ] >>
           /\ storeOp'[i].op = "sweepDestroy" =>
                LET victim == storeOp'[i].sessionId
                    k == Len(SweepSelected) - Len(sweep'[1].remaining) IN
                /\ sweep' # <<>>
                /\ SweepSelected[k] = victim
                /\ sessions' = SelectSeq(sessions, LAMBDA e : e.id # victim)
                /\ \A n \in DOMAIN emitted' : emitted'[n].type = "destroyed" ]_vars

\* The sweep has ended after evicting two sessions, one of them idle for
\* exactly the timeout, and a session that was not idle is still in the store.
C23_Witness ==
  /\ storeOp # <<>>
  /\ storeOp[1].op = "cleanupExpiredSessions"
  /\ storeOp[1].result = 2
  /\ Len(emitted) = 1
  /\ emitted[1].type = "timeout"
  /\ Len(sessions) = 1
  /\ now - sessions[1].lastActivity < defaultSessionTimeout

\* C24: under any interleaving of an idle sweep with getSession,
\* updateSession or incrementToolCall on the same session, a session touched
\* after the sweep selected its victims is not evicted on its stale
\* lastActivity: every session the sweep destroys is inactive or idle for the
\* timeout at the moment it is destroyed.
C24_SweepSparesTouchedSessions ==
  [][ \A i \in DOMAIN storeOp' :
        (storeOp'[i].op = "sweepDestroy" /\ storeOp'[i].result = TRUE) =>
          Expired(MapGet(sessions, storeOp'[i].sessionId), now) ]_vars

(***************************************************************************)
(* Claims about the session events.                                        *)
(***************************************************************************)
\* What a listener that keeps the set of live ids makes of one event: the
\* set after it, and whether the event fits the set before it.
Observe(seen, event) ==
  CASE event.type = "created" ->
         [ ok |-> seen.ok, ids |-> seen.ids \cup {event.sessionId} ]
    [] event.type = "destroyed" ->
         [ ok |-> seen.ok /\ event.sessionId \in seen.ids, ids |-> seen.ids \ {event.sessionId} ]
    [] event.type \in {"updated", "mode_changed"} ->
         [ ok |-> seen.ok /\ event.sessionId \in seen.ids, ids |-> seen.ids ]
    [] event.type = "timeout" ->
         [ ok |-> seen.ok /\ \A k \in DOMAIN event.expiredSessions :
                                event.expiredSessions[k] \notin seen.ids,
           ids |-> seen.ids ]

RECURSIVE ObserveAll(_, _)
ObserveAll(seen, events) ==
  IF events = <<>> THEN seen ELSE ObserveAll(Observe(seen, Head(events)), Tail(events))

C26_ImportOfExportRestores ==
  [][ /\ (storeOp' # <<>> /\ storeOp'[1].op = "exportSession" /\ storeOp'[1].result # <<>>) =>
           LET S == MapGet(sessions, storeOp'[1].sessionId)
               snapshot == storeOp'[1].result[1] IN
           /\ snapshot.workingDirectory = S.workingDirectory
           /\ snapshot.permissionMode = S.permissionMode
           /\ snapshot.toolCallCount = S.toolCallCount
           /\ snapshot.metadata = S.metadata
           /\ "isActive" \notin DOMAIN snapshot
      /\ (storeOp' # <<>> /\ storeOp'[1].op = "importExported") =>
           LET S == MapGet(sessions, storeOp[1].sessionId)
               imported == MapGet(sessions', storeOp'[1].result) IN
           /\ MapHas(sessions', storeOp'[1].result)
           /\ imported.workingDirectory = S.workingDirectory
           /\ imported.permissionMode = S.permissionMode
           /\ imported.toolCallCount = S.toolCallCount
           /\ imported.metadata = S.metadata
           /\ imported.isActive = TRUE
           /\ emitted' = << [ type |-> "created", sessionId |-> storeOp'[1].result,
                              imported |-> TRUE ] >> ]_vars

\* A session with a count, a note, a directory and a permission mode of its
\* own came back from a snapshot that carried isActive false.
C26_Witness ==
  /\ storeOp # <<>>
  /\ storeOp[1].op = "importExported"
  /\ storeOp[1].sessionData.isActive = FALSE
  /\ LET imported == MapGet(sessions, storeOp[1].result) IN
     /\ imported.toolCallCount = 2
     /\ imported.metadata # <<>>
     /\ imported.workingDirectory = "/tmp"
     /\ imported.permissionMode = "conservative"

(***************************************************************************)
(* Claims about the tool converter.                                        *)
(***************************************************************************)
\* The last step was convertToKode on a call whose name is in the table.
ConvertedMapped ==
  /\ lastCall # <<>>
  /\ lastCall[1].op = "convertToKode"
  /\ lastCall[1].toolCall # <<>>
  /\ lastCall[1].toolCall[1].name # Undefined
  /\ lastCall[1].toolCall[1].name \in DOMAIN toolConverter.mappings

\* The last step was convertToKode on a call whose name is not in the table.
ConvertedUnmapped ==
  /\ lastCall # <<>>
  /\ lastCall[1].op = "convertToKode"
  /\ ~ConvertedMapped

\* The internal call the claim describes for the call of the last step, its
\* absent input read as the empty object.
ExpectedKodeCall ==
  LET toolCall == lastCall[1].toolCall[1]
      mapping == toolConverter.mappings[toolCall.name]
      input == IF toolCall.input = <<>> THEN <<>> ELSE toolCall.input[1] IN
  [ name |-> mapping.toKode,
    input |-> IF mapping.transform = "none" THEN input
              ELSE [ out \in DOMAIN DefaultTransformFields[toolCall.name] |->
                       IF DefaultTransformFields[toolCall.name][out] \in DOMAIN input
                         THEN input[DefaultTransformFields[toolCall.name][out]]
                         ELSE Undefined ],
    id |-> IF toolCall.id # <<>> THEN toolCall.id ELSE lastCall[1].gen ]

\* C27, as the code has it: convertToKode on a call whose name is in the
\* mapping table returns {name: the mapping's internal name, input: the
\* mapping's transform applied to the input, or the input itself if there is
\* no transform, an absent input being the empty object, id: the supplied id,
\* or a freshly generated one if none was supplied}, unless the transform
\* throws: then, as on a name that is not in the table and on a call without
\* a name, it returns no internal call and does not throw.
C27_ConvertToKodeResult ==
  /\ ConvertedUnmapped => lastCall[1].result = <<>>
  /\ ConvertedMapped =>
       IF toolConverter.mappings[lastCall[1].toolCall[1].name].transform = "throws"
         THEN lastCall[1].result = <<>>
         ELSE lastCall[1].result = << ExpectedKodeCall >>

\* read_file with a path and no id came out as FileRead with both path
\* fields and a generated id.
C27_Witness ==
  /\ ConvertedMapped
  /\ lastCall[1].toolCall[1].name = "read_file"
  /\ lastCall[1].toolCall[1].id = <<>>
  /\ lastCall[1].result # <<>>
  /\ lastCall[1].result[1].name = "FileRead"
  /\ lastCall[1].result[1].id = << "tool_", "1" >>
  /\ lastCall[1].result[1].input["abs_path"] = "/x"
  /\ lastCall[1].result[1].input["file_path"] = "/x"

\* C27: convertToKode on a call whose name is in the mapping table returns an
\* internal call {name, input, id}; on a name that is not in the table it
\* returns no internal call.
C27_MappedNameConverts ==
  /\ ConvertedUnmapped => lastCall[1].result = <<>>
  /\ ConvertedMapped => lastCall[1].result # <<>>

\* C28: after any sequence of addMapping and removeMapping calls the forward
\* and the inverse index agree: the internal name of every forward entry has
\* an inverse entry, and every inverse entry is the forward entry of its
\* external name (so that re-registering an external name under another
\* internal name leaves no inverse entry for the old one, and removing one of
\* two external names that share an internal name leaves the other its
\* inverse).
C28_IndexesAgree ==
  /\ \A fromACP \in DOMAIN toolConverter.mappings :
       ReverseHas(toolConverter.reverseMappings, toolConverter.mappings[fromACP].toKode)
  /\ \A n \in DOMAIN toolConverter.reverseMappings :
       LET mapping == toolConverter.reverseMappings[n] IN
       /\ mapping.fromACP \in DOMAIN toolConverter.mappings
       /\ toolConverter.mappings[mapping.fromACP] = mapping

\* C29: convertFromKode of a result that carries a call id returns the
\* canonical envelope {type tool_result, the same call id, the same content,
\* the same error flag, false when absent} when the mapping of the internal
\* tool name the result was produced for has no reverse transform (or there
\* is no such mapping), and that mapping's reverse transform applied to the
\* result when it has one.
C29_ResultConvertedByItsTool ==
  (lastCall # <<>> /\ lastCall[1].op = "convertFromKode") =>
    LET result == lastCall[1].result
        reverse == toolConverter.reverseMappings
        tool == lastCall[1].tool IN
    IF ReverseHas(reverse, tool) /\ ReverseGet(reverse, tool).reverseTransform # "none"
      THEN lastCall[1].output =
             [ reverseTransform |-> ReverseGet(reverse, tool).reverseTransform,
               applied |-> result ]
      ELSE lastCall[1].output =
             [ type |-> "tool_result", tool_use_id |-> result.tool_use_id,
               content |-> result.content,
               is_error |-> IF result.is_error = <<>> THEN FALSE ELSE result.is_error[1] ]

(***************************************************************************)
(* The model registry: profiles, pointers and the current model changed by *)
(* direct calls and by the switch command of a client.                     *)
(***************************************************************************)
\* A call on the registry made outside a message handler.
ModelCall(mm, call) ==
  /\ multiModelManager' = mm
  /\ lastCall' = << call >>
  /\ handling' = <<>>
  /\ returned' = {}
  /\ collab' = {}
  /\ UNCHANGED <<agentSessions, kodeIntegration, calls, timers, running>>
  /\ UNCHANGED <<now, permissionManager, permOp, storeVars, sweep, toolConverter>>
  /\ UNCHANGED laterVars

SetCurrentModel(name) ==
  LET r == setCurrentModel(multiModelManager, name) IN
  ModelCall(r.mm, [ op |-> "setCurrentModel", name |-> name, result |-> r.result ])

SwitchToModel(purpose) ==
  LET r == switchToModel(multiModelManager, purpose) IN
  ModelCall(r.mm, [ op |-> "switchToModel", name |-> purpose, result |-> r.result ])

SetModelPointers(pointers) ==
  ModelCall(setModelPointers(multiModelManager, pointers),
            [ op |-> "setModelPointers", name |-> Undefined, result |-> TRUE ])

AddModelProfile(name) ==
  ModelCall(addModelProfile(multiModelManager, name),
            [ op |-> "addModelProfile", name |-> name, result |-> TRUE ])

RemoveModelProfile(name) ==
  LET r == removeModelProfile(multiModelManager, name) IN
  ModelCall(r.mm, [ op |-> "removeModelProfile", name |-> name, result |-> r.result ])

ImportConfig(config) ==
  ModelCall(importConfig(multiModelManager, config),
            [ op |-> "importConfig", name |-> config.currentModel, result |-> TRUE ])

\* Configs as exportConfig writes them and as a caller cuts them down: with
\* and without profiles, naming a current model that has a profile in the
\* registry, only in the config, or nowhere.
ModelConfigs ==
  { [ modelProfiles |-> profiles, modelPointers |-> <<>>, currentModel |-> name ] :
      profiles \in { <<>>, << {"local"} >>, << {"gpt-4", "local"} >> },
      name \in { Undefined, "local", "gpt-4" } }

\* The model_command messages of a client that switch the model.
ModelSwitchMessages ==
  { Message("model_command", Undefined, Undefined, <<>>, "switch", name) :
      name \in { Undefined, "gpt-4", "local", "no-such-model" } }

ModelsNext ==
  \/ \E name \in {"gpt-4", "local", "no-such-model"} : SetCurrentModel(name)
  \/ \E purpose \in {"main", "task"} : SwitchToModel(purpose)
  \/ \E pointers \in { [ purpose \in {"main"} |-> "local" ],
                       [ purpose \in {"task"} |-> "no-such-model" ] } :
       SetModelPointers(pointers)
  \/ AddModelProfile("local")
  \/ \E name \in {"gpt-4", "local"} : RemoveModelProfile(name)
  \/ \E config \in ModelConfigs : ImportConfig(config)
  \/ \E message \in ModelSwitchMessages : HandleMessage(<< message >>)

SpecModels == Init /\ [][ModelsNext]_vars

(***************************************************************************)
(* Claims about the model registry.                                        *)
(***************************************************************************)
\* The step was the call `op` on the registry, made outside a handler.
ModelCalled(op) == handling' = <<>> /\ lastCall' # <<>> /\ lastCall'[1].op = op

\* The step handled a switch command; its response says `success`.
SwitchAnswered(success) ==
  /\ handling' # <<>>
  /\ handling'[1] # <<>>
  /\ handling'[1][1].type = "model_command"
  /\ handling'[1][1].command = "switch"
  /\ \E r \in returned' : r.outcome.kind = "return" /\ r.outcome.response.success = success

\* C30: setCurrentModel(name) with a name that has no profile returns false
\* and changes nothing; the current model is changed, by setCurrentModel,
\* switchToModel, the switch command or importConfig, only to a name that
\* has a profile at that moment, and a failed switch leaves the current
\* model as it was.
C30_CurrentModelHasProfileWhenSet ==
  [][ /\ multiModelManager'.currentModel # multiModelManager.currentModel =>
           multiModelManager'.currentModel \in multiModelManager'.modelProfiles
      /\ (ModelCalled("setCurrentModel")
            /\ lastCall'[1].name \notin multiModelManager.modelProfiles) =>
           lastCall'[1].result = FALSE /\ multiModelManager' = multiModelManager
      /\ ((ModelCalled("setCurrentModel") \/ ModelCalled("switchToModel"))
            /\ lastCall'[1].result = FALSE) =>
           multiModelManager' = multiModelManager
      /\ (ModelCalled("setCurrentModel") /\ lastCall'[1].result = TRUE) =>
           multiModelManager'.currentModel = lastCall'[1].name
      /\ (ModelCalled("importConfig")
            /\ lastCall'[1].name \notin multiModelManager'.modelProfiles) =>
           multiModelManager'.currentModel = multiModelManager.currentModel
      /\ SwitchAnswered(FALSE) => multiModelManager' = multiModelManager
      /\ SwitchAnswered(TRUE) =>
           /\ multiModelManager'.currentModel = handling'[1][1].modelName
           /\ handling'[1][1].modelName \in multiModelManager.modelProfiles ]_vars

\* The current model had been set to a profile added later, and a
\* setCurrentModel with a name that has no profile has just returned false.
C30_Witness ==
  /\ handling = <<>>
  /\ lastCall # <<>>
  /\ lastCall[1].op = "setCurrentModel"
  /\ lastCall[1].name = "no-such-model"
  /\ lastCall[1].result = FALSE
  /\ multiModelManager.currentModel = "local"

(***************************************************************************)
(* Claims about the model calls.                                           *)
(***************************************************************************)
\* The profile name executeWithModel is called for by the message handled
\* in this step: the current model for a prompt, the named model for an
\* 'ask'; Undefined when the handler returns before it makes the call.
ExecuteTarget ==
  IF handling' = <<>> \/ handling'[1] = <<>> THEN Undefined
  ELSE LET message == handling'[1][1] IN
       IF message.type = "prompt" /\ handlePromptCheck(agentSessions, message) = "ok"
         THEN multiModelManager.currentModel
       ELSE IF /\ message.type = "model_command"
               /\ message.command = "ask"
               /\ message.modelName # Undefined
               /\ message.prompt # Undefined
               /\ hasModelProfile(multiModelManager, message.modelName)
         THEN message.modelName
       ELSE Undefined

\* C31: executeWithModel resolves its target as the explicit model name if
\* one is given and the current model otherwise; if that name has no profile
\* it fails without calling the Invoke collaborator; otherwise it calls
\* Invoke once, with that profile.
C31_ResolvedProfileIsInvoked ==
  [][ ExecuteTarget # Undefined =>
        IF ExecuteTarget \in multiModelManager.modelProfiles
          THEN collab' = { [ op |-> "Invoke", name |-> ExecuteTarget ] }
          ELSE /\ \A c \in collab' : c.op # "Invoke"
               /\ \E r \in returned' : r.outcome.kind = "return"
                                       /\ r.outcome.response.type = "error" ]_vars

(***************************************************************************)
(* The model registry: executeInParallel with its invocations in flight,   *)
(* and calls that change the registry meanwhile.  simulateModelCall waits  *)
(* for a timer of 100 to 300 ms and then returns its text: the invocations *)
(* of one batch settle in any order.                                       *)
(***************************************************************************)
\* A batch has at most this many requests.
MaxBatch == 2

\* Requests by explicit name (unknown; known, with a purpose beside it), by
\* purpose, by neither, and one whose prompt is not a string.
ParallelRequests ==
  { [ prompt |-> x[1], modelName |-> x[2], purpose |-> x[3] ] :
      x \in { <<"hi", "no-such-model", Undefined>>, <<"hi", "gpt-4", "task">>,
              <<"hi", Undefined, "task">>, <<"hi", Undefined, Undefined>>,
              <<NotAString, Undefined, Undefined>> } }

\* The call as it goes on: its requests, the modelName each callback holds,
\* the profile invoked for each (Undefined if none) and the entry of each
\* (<<>> while pending).
ParallelCall(requests, modelNames, profiles, entries) ==
  [ op |-> "executeInParallel", requests |-> requests, modelNames |-> modelNames,
    profiles |-> profiles, entries |-> entries ]

\* A call that returns as soon as one of its entries is there.
ParallelGoesOnMutFirst(call) ==
  IF \E n \in DOMAIN call.entries : call.entries[n] # <<>>
    THEN batch' = <<>> /\ lastCall' = << call >>
    ELSE batch' = << call >> /\ lastCall' = <<>>

\* A call whose entries are all there returns them (Promise.all resolves);
\* another stays in flight.
ParallelGoesOn(call) ==
  IF \A n \in DOMAIN call.entries : call.entries[n] # <<>>
    THEN batch' = <<>> /\ lastCall' = << call >>
    ELSE batch' = << call >> /\ lastCall' = <<>>

\* executeInParallel(requests): every map callback runs to its await.
ExecuteInParallel(requests) ==
  /\ batch = <<>>
  /\ LET started == [ n \in DOMAIN requests |-> parallelRequest(multiModelManager, requests[n]) ] IN
     /\ ParallelGoesOn(ParallelCall(requests,
                                    [ n \in DOMAIN requests |->
                                        requestModelName(multiModelManager, requests[n]) ],
                                    [ n \in DOMAIN requests |-> started[n].profile ],
                                    [ n \in DOMAIN requests |-> started[n].entry ]))
     /\ collab' = { [ op |-> "Invoke", name |-> started[n].profile ] :
                      n \in { m \in DOMAIN requests : started[m].profile # Undefined } }
  /\ handling' = <<>>
  /\ returned' = {}
  /\ UNCHANGED <<agentSessions, multiModelManager, kodeIntegration, calls, timers, running>>
  /\ UNCHANGED <<now, permissionManager, permOp, storeVars, sweep, toolConverter, eventListeners, http>>

\* The invocation of request n settles: executeWithModel returns its text
\* and the callback returns {model, response}.
InvokeSettles(n) ==
  /\ batch # <<>>
  /\ n \in DOMAIN batch[1].entries
  /\ batch[1].entries[n] = <<>>
  /\ LET call == batch[1]
         entry == [ model |-> call.modelNames[n], response |-> call.profiles[n],
                    error |-> Undefined ] IN
     ParallelGoesOn([ call EXCEPT !.entries[n] = << entry >> ])
  /\ collab' = {}
  /\ handling' = <<>>
  /\ returned' = {}
  /\ UNCHANGED <<agentSessions, multiModelManager, kodeIntegration, calls, timers, running>>
  /\ UNCHANGED <<now, permissionManager, permOp, storeVars, sweep, toolConverter, eventListeners, http>>

ParallelNext ==
  \/ \E size \in 0 .. MaxBatch : \E requests \in [ 1 .. size -> ParallelRequests ] :
       ExecuteInParallel(requests)
  \/ \E n \in 1 .. MaxBatch : InvokeSettles(n)
  \/ SetModelPointers([ purpose \in {"task"} |-> "no-such-model" ])
  \/ SetCurrentModel("gpt-4")
  \/ RemoveModelProfile("gpt-4")
  \/ SwitchToModel("task")

SpecParallel == Init /\ [][ParallelNext]_vars

(***************************************************************************)
(* Claims about executeInParallel.                                         *)
(***************************************************************************)
\* The step is the call of executeInParallel: the call it starts.
ParallelStarted ==
  IF batch # <<>> THEN <<>>
  ELSE IF batch' # <<>> THEN batch'
  ELSE IF lastCall' # <<>> /\ lastCall'[1].op = "executeInParallel" THEN lastCall'
  ELSE <<>>

\* The step is executeInParallel returning: the call that returns.
ParallelReturned ==
  IF lastCall' # <<>> /\ lastCall'[1].op = "executeInParallel" /\ batch' = <<>>
       /\ (batch # <<>> \/ ParallelStarted # <<>>)
    THEN lastCall'
    ELSE <<>>

\* The profile name a request stands for when the call is made: the explicit
\* modelName, else the target of its purpose pointer, else the current model.
RequestTarget(request) ==
  IF request.modelName # Undefined THEN request.modelName
  ELSE IF request.purpose # Undefined THEN multiModelManager.modelPointers[request.purpose]
  ELSE multiModelManager.currentModel

\* The request fails: its target has no profile, or its prompt is no string.
RequestFails(request) ==
  RequestTarget(request) \notin multiModelManager.modelProfiles \/ request.prompt = NotAString

\* C32: executeInParallel with N requests returns only after all N
\* invocations have settled and returns exactly N entries, one per request; a
\* request that fails yields an entry with an error field, every other
\* request's entry carries its successful response, and one failure never
\* cancels or drops a sibling: a failing request has its error entry at
\* once, every other request is invoked and stays pending until its own
\* invocation settles with its response, entries once there stay as they
\* are, and the call returns with the step that brings the last entry.
C32_BatchCollectsEveryOutcome ==
  [][ /\ ParallelStarted # <<>> =>
           LET call == ParallelStarted[1] IN
           /\ DOMAIN call.entries = DOMAIN call.requests
           /\ \A n \in DOMAIN call.requests :
                IF RequestFails(call.requests[n])
                  THEN /\ call.entries[n] # <<>>
                       /\ call.entries[n][1].error # Undefined
                       /\ call.entries[n][1].response = ""
                  ELSE /\ [ op |-> "Invoke", name |-> RequestTarget(call.requests[n]) ] \in collab'
                       /\ call.profiles[n] = RequestTarget(call.requests[n])
                       /\ call.entries[n] = <<>>
      /\ batch # <<>> =>
           LET after == IF batch' # <<>> THEN batch' ELSE lastCall' IN
           \/ batch' = batch
           \/ /\ after # <<>>
              /\ after[1].requests = batch[1].requests
              /\ \E n \in DOMAIN batch[1].entries :
                   /\ batch[1].entries[n] = <<>>
                   /\ after[1].entries[n] # <<>>
                   /\ after[1].entries[n][1].error = Undefined
                   /\ after[1].entries[n][1].response = batch[1].profiles[n]
                   /\ \A m \in DOMAIN batch[1].entries \ {n} :
                        after[1].entries[m] = batch[1].entries[m]
              /\ batch' = <<>> <=> \A n \in DOMAIN after[1].entries : after[1].entries[n] # <<>>
      /\ ParallelReturned # <<>> =>
           /\ Len(ParallelReturned[1].entries) = Len(ParallelReturned[1].requests)
           /\ \A n \in DOMAIN ParallelReturned[1].entries :
                ParallelReturned[1].entries[n] # <<>> ]_vars

\* A batch of two came back: the first request failed, the second was
\* served.
C32_Witness ==
  /\ batch = <<>>
  /\ lastCall # <<>>
  /\ lastCall[1].op = "executeInParallel"
  /\ Len(lastCall[1].entries) = 2
  /\ lastCall[1].entries[1][1].error # Undefined
  /\ lastCall[1].entries[2][1].error = Undefined
  /\ lastCall[1].entries[2][1].response = "gpt-4"

\* C33: in the list returned by executeInParallel every entry's model field
\* is the profile name its originating request resolved to (the explicit
\* modelName, else the target of its purpose pointer, else the current
\* model), for successful and for failed requests alike: the entries made
\* when the call is made name the target of their request, and an entry made
\* later names the profile that was invoked for it.
C33_EntryNamesItsTarget ==
  [][ /\ ParallelStarted # <<>> =>
           \A n \in DOMAIN ParallelStarted[1].entries :
             ParallelStarted[1].entries[n] # <<>> =>
               ParallelStarted[1].entries[n][1].model = RequestTarget(ParallelStarted[1].requests[n])
      /\ (batch # <<>> /\ batch' # batch) =>
           LET after == IF batch' # <<>> THEN batch' ELSE lastCall' IN
           \A n \in DOMAIN batch[1].entries :
             (batch[1].entries[n] = <<>> /\ after[1].entries[n] # <<>>) =>
               after[1].entries[n][1].model = batch[1].profiles[n] ]_vars

\* getModelForPurpose, for the formulas: the purposes whose pointer names no
\* profile.
Dangling == { purpose \in DOMAIN multiModelManager.modelPointers :
                multiModelManager.modelPointers[purpose] \notin multiModelManager.modelProfiles }

\* C34: assigning a purpose pointer to a profile name that does not exist is
\* accepted without validation or error; the dangling pointer surfaces only
\* when used: getModelForPurpose returns no profile, switchToModel returns
\* false and leaves the current model unchanged, and an executeInParallel
\* request by that purpose yields an error-tagged entry.
C34_DanglingPointerSurfacesAtUse ==
  [][ /\ ModelCalled("setModelPointers") =>
           /\ multiModelManager'.modelPointers["task"] = "no-such-model"
           /\ "task" \in Dangling'
           /\ multiModelManager'.currentModel = multiModelManager.currentModel
           /\ multiModelManager'.modelProfiles = multiModelManager.modelProfiles
      /\ \A purpose \in Dangling : getModelForPurpose(multiModelManager, purpose) = Undefined
      /\ (ModelCalled("switchToModel") /\ lastCall'[1].name \in Dangling) =>
           lastCall'[1].result = FALSE /\ multiModelManager' = multiModelManager
      /\ ParallelStarted # <<>> =>
           \A n \in DOMAIN ParallelStarted[1].requests :
             LET request == ParallelStarted[1].requests[n] IN
             (request.modelName = Undefined /\ request.purpose \in Dangling) =>
               /\ ParallelStarted[1].entries[n] # <<>>
               /\ ParallelStarted[1].entries[n][1].error = "Model profile not found"
               /\ ParallelStarted[1].profiles[n] = Undefined ]_vars

\* The task pointer names no profile, and a batch with a request by that
\* purpose came back with its error entry.
C34_Witness ==
  /\ "task" \in Dangling
  /\ batch = <<>>
  /\ lastCall # <<>>
  /\ lastCall[1].op = "executeInParallel"
  /\ \E n \in DOMAIN lastCall[1].requests :
       /\ lastCall[1].requests[n].modelName = Undefined
       /\ lastCall[1].requests[n].purpose = "task"
       /\ lastCall[1].entries[n][1].error = "Model profile not found"

(***************************************************************************)
(* The stdio loop (runStdioAgent, runKodeAcp): agent.initialize(), then    *)
(* for each line of stdin that parses, `await agent.handleMessage` and     *)
(* `await connection.send` before the next line is taken.  What the loop   *)
(* writes to stdout in a step is StdioSends(returned').                    *)
(***************************************************************************)
\* The loop's send after handleMessage settled: the response it returned,
\* or, from the catch block, an error message with the text of what it threw.
StdioSends(outcomes) ==
  { IF r.outcome.kind = "return" THEN r.outcome.response
    ELSE [ type |-> "error", error |-> r.outcome.error ] : r \in outcomes }

\* A loop that takes the next line while a handler is still awaited.
StdioMessageMutNoWait(received) ==
  /\ kodeIntegration.initialized
  /\ HandleMessage(received)

\* The generator yields the message parsed from the next line and the loop
\* body runs to the await in handleMessage or, if there is none, to the send.
StdioMessage(received) ==
  /\ kodeIntegration.initialized
  /\ DOMAIN calls = {}
  /\ HandleMessage(received)

\* The next line does not parse: the generator logs and takes the line after.
StdioUnparsed ==
  /\ kodeIntegration.initialized
  /\ DOMAIN calls = {}
  /\ lastCall' = << [ op |-> "receive", line |-> "unparsed" ] >>
  /\ handling' = <<>>
  /\ returned' = {}
  /\ collab' = {}
  /\ UNCHANGED <<agentSessions, multiModelManager, kodeIntegration, calls, timers, running>>
  /\ UNCHANGED <<now, permissionManager, permOp, storeVars, sweep, toolConverter, laterVars>>

StdioNext ==
  \/ AgentInitialize(TRUE)
  \/ \E received \in RouterInbound : StdioMessage(received)
  \/ StdioUnparsed
  \/ \E slot \in 1 .. MaxInflight : ModelDone(slot)
  \/ \E requestId \in 1 .. MaxInflight, isError \in BOOLEAN : ExecutionDone(requestId, isError)
  \/ \E requestId \in 1 .. MaxInflight : ExecutionTimeout(requestId)

\* The timers of the model call and of the tool execution fire.
SpecStdio ==
  /\ Init
  /\ [][StdioNext]_vars
  /\ \A slot \in 1 .. MaxInflight : WF_vars(ModelDone(slot))
  /\ \A requestId \in 1 .. MaxInflight : WF_vars(ExecutionTimeout(requestId))

(***************************************************************************)
(* Claims about the stdio loop.                                            *)
(***************************************************************************)
\* C35: in the stdio loop every inbound line that parses as a message yields
\* exactly one outbound message (the handler's response or a {type: error});
\* responses are sent in the order the messages were received and message
\* k+1 is not handled before the response to message k has been sent; a line
\* that does not parse yields no response and does not stop the loop.  A
\* message is taken only when no handler is awaited; taking it either sends
\* one message at once or leaves one handler awaited; while a handler is
\* awaited nothing is sent until it settles, and then one message is sent;
\* nothing is sent when no handler is awaited; what is sent for a handler
\* that threw is an error message; and a handler that is awaited settles.
C35_OneResponsePerMessageInOrder ==
  /\ []<>(DOMAIN calls = {})
  /\ [][ /\ Cardinality(DOMAIN calls') <= 1
         /\ Cardinality(StdioSends(returned')) <= 1
         /\ handling' # <<>> =>
              /\ DOMAIN calls = {}
              /\ Cardinality(StdioSends(returned')) + Cardinality(DOMAIN calls') = 1
         /\ (handling' = <<>> /\ DOMAIN calls # {}) =>
              Cardinality(StdioSends(returned')) + Cardinality(DOMAIN calls') = 1
         /\ (handling' = <<>> /\ DOMAIN calls = {}) => StdioSends(returned') = {}
         /\ \A r \in returned' :
              r.outcome.kind = "throw" =>
                StdioSends(returned') = { ErrorResponse(r.outcome.error) }
         /\ (lastCall' # lastCall /\ lastCall' # <<>> /\ lastCall'[1].op = "receive") =>
              /\ StdioSends(returned') = {}
              /\ UNCHANGED <<agentSessions, multiModelManager, kodeIntegration, calls>> ]_vars

\* After a line that did not parse, a tool call was taken, awaited and
\* answered.
C35_Witness ==
  /\ lastCall # <<>>
  /\ lastCall[1].op = "receive"
  /\ handling = <<>>
  /\ DOMAIN calls = {}
  /\ \E m \in StdioSends(returned) : m.type = "tool_call_response"

(***************************************************************************)
(* EventEmitter (event-emitter.ts): the listeners of one event.  A         *)
(* listener is [id, once, throws]: the function registered (for once, the  *)
(* wrapper made for it), whether it is such a wrapper, and whether the     *)
(* function throws when it is called.                                      *)
(***************************************************************************)
\* At most this many listeners are registered over a run.
MaxListeners == 3

\* removeListener(event, listener): indexOf and splice.
removeListener(listeners, id) ==
  LET Other(listener) == listener.id # id IN SelectSeq(listeners, Other)

\* The loop of emit, `for (const listener of listeners)`, from position n of
\* the array it iterates: the array iterator reads listeners[n] of the array
\* as it is then, and a once wrapper splices itself out of that same array
\* before it calls its listener.  [listeners, invoked]
RECURSIVE emitFrom(_, _, _)
emitFrom(listeners, n, invoked) ==
  IF n > Len(listeners) THEN [ listeners |-> listeners, invoked |-> invoked ]
  ELSE LET listener == listeners[n] IN
       emitFrom(IF listener.once THEN removeListener(listeners, listener.id) ELSE listeners,
                n + 1, Append(invoked, listener.id))

\* on(event, listener) and once(event, listener), with a function that is
\* not registered yet.
On(id, once, throws) ==
  /\ \A n \in DOMAIN eventListeners : eventListeners[n].id # id
  /\ eventListeners' = Append(eventListeners, [ id |-> id, once |-> once, throws |-> throws ])
  /\ lastCall' = << [ op |-> IF once THEN "once" ELSE "on", id |-> id ] >>
  /\ UNCHANGED <<now, permissionManager, permOp, storeVars, routerVars, sweep, toolConverter, batch, http>>

RemoveListener(id) ==
  /\ eventListeners' = removeListener(eventListeners, id)
  /\ lastCall' = << [ op |-> "removeListener", id |-> id ] >>
  /\ UNCHANGED <<now, permissionManager, permOp, storeVars, routerVars, sweep, toolConverter, batch, http>>

\* emit(event): the ids of the functions it called, in the order of the calls.
Emit ==
  LET r == emitFrom(eventListeners, 1, <<>>) IN
  /\ eventListeners' = r.listeners
  /\ lastCall' = << [ op |-> "emit", registered |-> eventListeners, invoked |-> r.invoked ] >>
  /\ UNCHANGED <<now, permissionManager, permOp, storeVars, routerVars, sweep, toolConverter, batch, http>>

EmitterNext ==
  \/ \E id \in 1 .. MaxListeners, once \in BOOLEAN, throws \in BOOLEAN : On(id, once, throws)
  \/ \E id \in 1 .. MaxListeners : RemoveListener(id)
  \/ Emit

SpecEmitter == Init /\ [][EmitterNext]_vars

(***************************************************************************)
(* Claims about the event emitter.                                         *)
(***************************************************************************)
\* C36: emit(event) invokes every listener that is registered for the event
\* when emit is called, exactly once each and in registration order, also
\* when a listener registered with once removes itself during the delivery
\* and when a listener throws; a once-listener is invoked for at most one
\* emission (it is not registered after the emission).
C36_EmitReachesEveryListener ==
  (lastCall # <<>> /\ lastCall[1].op = "emit") =>
    /\ lastCall[1].invoked = [ n \in DOMAIN lastCall[1].registered |-> lastCall[1].registered[n].id ]
    /\ \A n \in DOMAIN eventListeners : ~eventListeners[n].once

(***************************************************************************)
(* The session store and its permission policy: sessions of several modes  *)
(* and the one ToolPermissionManager the SessionManager constructs.        *)
(***************************************************************************)
\* A checkToolPermission that decides under the mode of the session.
checkToolPermissionMutOwnMode(ss, pm, sessionId, toolName, t) ==
  LET got == getSession(ss, sessionId, t) IN
  IF got.result = <<>>
    THEN [ sessions |-> got.sessions, pm |-> pm, result |-> FALSE ]
    ELSE LET r == requestPermission([ pm EXCEPT !.currentMode = got.result[1].mode ], toolName, t) IN
         [ sessions |-> got.sessions, pm |-> [ r.pm EXCEPT !.currentMode = pm.currentMode ],
           result |-> r.result ]

\* checkToolPermission(sessionId, toolName): [sessions, pm, result].
checkToolPermission(ss, pm, sessionId, toolName, t) ==
  LET got == getSession(ss, sessionId, t) IN
  IF got.result = <<>>
    THEN [ sessions |-> got.sessions, pm |-> pm, result |-> FALSE ]
    ELSE LET r == requestPermission(pm, toolName, t) IN
         [ sessions |-> got.sessions, pm |-> r.pm, result |-> r.result ]

CheckToolPermission(sessionId, toolName) ==
  LET r == checkToolPermission(sessions, permissionManager, sessionId, toolName, now) IN
  /\ sessions' = r.sessions
  /\ permissionManager' = r.pm
  /\ emitted' = <<>>
  /\ storeOp' = << [ op |-> "checkToolPermission", sessionId |-> sessionId,
                     toolName |-> toolName, result |-> r.result ] >>
  /\ permOp' = <<>>
  /\ UNCHANGED <<now, routerVars, extraVars>>

\* Sessions "a" and "b"; the mode names are absent, three of the four modes
\* of the policy, and a name that is none of them.
PolicyNext ==
  \/ \E i \in {"a", "b"}, m \in {Undefined, "plan", "bypass_permissions", "turbo"} :
       CreateSession([ id |-> i, mode |-> m, workingDirectory |-> Undefined,
                       permissionMode |-> Undefined ])
  \/ \E m \in {Undefined, "accept_edits", "turbo"} :
       ImportSession([ id |-> "b", mode |-> m, workingDirectory |-> Undefined,
                       permissionMode |-> Undefined, createdAt |-> 0, lastActivity |-> 0,
                       toolCallCount |-> 0, metadata |-> <<>> ])
  \/ \E sessionId \in {"a", "b"}, m \in {Undefined, "default", "plan", "turbo"} :
       UpdateSession(sessionId, [ mode |-> m, workingDirectory |-> Undefined,
                                  permissionMode |-> Undefined ])
  \/ \E sessionId \in {"a", "b"} : DestroySession(sessionId)
  \/ \E sessionId \in {"a", "b"}, toolName \in {"read_file", "run_command"} :
       CheckToolPermission(sessionId, toolName)

SpecSessionPolicy == Init /\ [][PolicyNext]_vars

(***************************************************************************)
(* Claims about the permission policy of the session store.                *)
(***************************************************************************)
\* The mode name the store operation of this step hands to setMode, "" when
\* the step is none of: a createSession that made a session, an
\* importSession, an updateSession that changed the mode of a session.
ModeCarried ==
  IF storeOp' = <<>> THEN Undefined
  ELSE LET call == storeOp'[1] IN
    CASE call.op = "createSession" ->
           IF call.result.ok THEN MapGet(sessions', call.result.id).mode ELSE Undefined
      [] call.op = "importSession" -> MapGet(sessions', call.result).mode
      [] call.op = "updateSession" ->
           IF /\ MapHas(sessions, call.sessionId)
              /\ call.updates.mode # Undefined
              /\ call.updates.mode # MapGet(sessions, call.sessionId).mode
             THEN call.updates.mode ELSE Undefined
      [] OTHER -> Undefined

\* C37: the SessionManager holds one permission policy for all its
\* sessions.  The policy's mode is "default" at first; a createSession, an
\* importSession or a mode-changing updateSession that carries a recognised
\* mode name makes that name the policy's mode, whichever session it is
\* for, and no other store operation (destroySession among them) changes
\* it, so the mode is always the one carried by the most recent of those
\* operations.  checkToolPermission(S, tool) on a session that exists
\* answers what that mode says about the tool, not what the mode of S says.
C37_OnePolicyForAllSessions ==
  /\ permissionManager.currentMode = "default"
  /\ [][ /\ permissionManager'.currentMode =
              IF ModeCarried \in ModeNames THEN ModeCarried
              ELSE permissionManager.currentMode
         /\ \A call \in { storeOp'[n] : n \in DOMAIN storeOp' } :
              (call.op = "checkToolPermission" /\ MapHas(sessions, call.sessionId)) =>
                call.result = (\/ "*" \in modes[permissionManager.currentMode].autoApprove
                               \/ call.toolName \in
                                    modes[permissionManager.currentMode].autoApprove) ]_vars

\* Session "a" is in mode "default", which approves read_file; the policy
\* is in mode "plan" since session "b" was created, and read_file was just
\* refused for session "a".
C37_Witness ==
  /\ MapHas(sessions, "a") /\ MapGet(sessions, "a").mode = "default"
  /\ MapHas(sessions, "b") /\ MapGet(sessions, "b").mode = "plan"
  /\ permissionManager.currentMode = "plan"
  /\ storeOp = << [ op |-> "checkToolPermission", sessionId |-> "a",
                    toolName |-> "read_file", result |-> FALSE ] >>

(***************************************************************************)
(* Claims about the prompt handler and the model it names.                 *)
(***************************************************************************)
\* The prompt_response messages returned in the last step.
PromptResponses ==
  { r.outcome.response : r \in { x \in returned : /\ x.type = "prompt"
                                                  /\ x.outcome.kind = "return"
                                                  /\ x.outcome.response.type = "prompt_response" } }

\* C38: in a prompt_response the model field (the label in the text is the
\* same value) names the profile that served the prompt, also when a
\* model_command switch was handled while the model call of that prompt was
\* in flight.
C38_LabelNamesServingProfile ==
  \A response \in PromptResponses : response.model = response.servedBy

\* A prompt served by claude-sonnet is answered after a switch to gpt-4 was
\* handled during its model call.
C38_Witness ==
  /\ multiModelManager.currentModel = "gpt-4"
  /\ \E response \in PromptResponses :
       response.model = "claude-sonnet" /\ response.servedBy = "claude-sonnet"

(***************************************************************************)
(* HTTP mode (runHttpServer, createKodeAcpHttpServer).  The request        *)
(* callback of POST /acp parses the body, constructs an agent, awaits its  *)
(* initialize(), awaits handleMessage and sends what it returned; what it  *)
(* throws becomes a 500 response.  The agent variables hold the agent of   *)
(* the latest request.  The agents of two requests share nothing, so the   *)
(* requests are taken one at a time.                                       *)
(***************************************************************************)
\* A request callback that keeps one agent for all requests.
HttpPostMutSharedAgent(received, available) ==
  /\ http.pending = <<>>
  /\ http' = [ http EXCEPT !.pending = << [ request |-> received, available |-> available ] >>,
                           !.exchange = <<>> ]
  /\ kodeIntegration' = [ kodeIntegration EXCEPT !.initialized = available ]
  /\ collab' = { [ op |-> "isCommandAvailable", name |-> "kode" ] }
  /\ handling' = <<>>
  /\ returned' = {}
  /\ UNCHANGED <<agentSessions, multiModelManager, calls, timers, running>>
  /\ UNCHANGED <<now, permissionManager, permOp, storeVars, sweep, toolConverter, lastCall,
                 batch, eventListeners>>

\* POST /acp with a body that parses to `received`: new KodeAcpAgentSimple
\* and agent.initialize(), which finds kode or throws.
HttpPost(received, available) ==
  /\ http.pending = <<>>
  /\ http' = [ http EXCEPT !.pending = << [ request |-> received, available |-> available ] >>,
                           !.exchange = <<>> ]
  /\ agentSessions' = <<>>
  /\ multiModelManager' = NewMultiModelManager
  /\ kodeIntegration' = [ NewKodeIntegration EXCEPT !.initialized = available ]
  /\ collab' = { [ op |-> "isCommandAvailable", name |-> "kode" ] }
  /\ handling' = <<>>
  /\ returned' = {}
  /\ UNCHANGED <<calls, timers, running>>
  /\ UNCHANGED <<now, permissionManager, permOp, storeVars, sweep, toolConverter, lastCall,
                 batch, eventListeners>>

\* agent.initialize() has returned: agent.handleMessage(message).
HttpHandle ==
  /\ http.pending # <<>>
  /\ http.pending[1].available
  /\ handling = <<>>
  /\ returned = {}
  /\ HandleMessage(http.pending[1].request)

\* The callback ends: connection.send(response) with status 200, or the
\* catch block with status 500 and the message of what was thrown.
HttpSend ==
  /\ http.pending # <<>>
  /\ ~http.pending[1].available \/ returned # {}
  /\ LET outcome == IF ~http.pending[1].available
                      THEN Throw("Kode is not installed")
                      ELSE (CHOOSE r \in returned : TRUE).outcome
         response == IF outcome.kind = "return" THEN outcome.response
                     ELSE ErrorResponse(outcome.error)
         sent == [ request |-> http.pending[1].request,
                   available |-> http.pending[1].available,
                   status |-> IF outcome.kind = "return" THEN 200 ELSE 500,
                   response |-> response ] IN
     http' = [ issued |-> http.issued \cup (IF response.type = "new_session_response"
                                              THEN {response.sessionId} ELSE {}),
               pending |-> <<>>,
               exchange |-> << sent >> ]
  /\ handling' = <<>>
  /\ returned' = {}
  /\ collab' = {}
  /\ UNCHANGED <<agentSessions, multiModelManager, kodeIntegration, calls, timers, running>>
  /\ UNCHANGED <<now, permissionManager, permOp, storeVars, sweep, toolConverter, lastCall,
                 batch, eventListeners>>

HttpNext ==
  \/ \E received \in RouterInbound, available \in BOOLEAN : HttpPost(received, available)
  \/ HttpHandle
  \/ \E slot \in 1 .. MaxInflight : ModelDone(slot)
  \/ HttpSend

SpecHttp == Init /\ [][HttpNext]_vars

(***************************************************************************)
(* Claims about HTTP mode.                                                 *)
(***************************************************************************)
\* The exchanges in which a prompt or a tool_call carried a session id that
\* an earlier new_session request was answered with.
ExchangesOnIssuedSession ==
  { http.exchange[n] : n \in { m \in DOMAIN http.exchange :
      /\ http.exchange[m].request # <<>>
      /\ http.exchange[m].request[1].type \in {"prompt", "tool_call"}
      /\ http.exchange[m].request[1].sessionId \in http.issued } }

\* C39 as stated: in HTTP mode every POST /acp request is handled by a
\* freshly constructed agent, so a prompt or tool_call that carries a
\* sessionId returned by an earlier new_session request gets the
\* 'Session not found' error response.
C39_IssuedSessionIsNotFound ==
  \A sent \in ExchangesOnIssuedSession : sent.response = ErrorResponse("Session not found")

\* C39, amended: in HTTP mode every POST /acp request is handled by a
\* freshly constructed agent: when handleMessage is called the agent has no
\* session and the model selection of construction.  A prompt or tool_call
\* that carries a sessionId returned by an earlier new_session request is
\* answered with status 500 and the initialize error when the new agent does
\* not find kode, with the 'Missing ...' error when it lacks its prompt or
\* toolCall, and with the 'Session not found' error otherwise.
C39_NoSessionSurvivesRequests ==
  /\ (http.pending # <<>> /\ handling = <<>> /\ returned = {}) =>
       /\ agentSessions = <<>>
       /\ multiModelManager = NewMultiModelManager
  /\ \A sent \in ExchangesOnIssuedSession :
       LET message == sent.request[1] IN
       IF ~sent.available
         THEN sent.status = 500 /\ sent.response = ErrorResponse("Kode is not installed")
       ELSE IF message.type = "prompt" /\ message.prompt = Undefined
         THEN sent.response = ErrorResponse("Missing sessionId or prompt")
       ELSE IF message.type = "tool_call" /\ message.toolCall = <<>>
         THEN sent.response = ErrorResponse("Missing sessionId or toolCall")
       ELSE sent.status = 200 /\ sent.response = ErrorResponse("Session not found")

\* Session "s1" was returned by a new_session request, and a later prompt
\* for it was answered 'Session not found'.
C39_Witness ==
  \E sent \in ExchangesOnIssuedSession :
    /\ sent.request[1].type = "prompt"
    /\ sent.request[1].prompt = "hi"
    /\ sent.available
    /\ sent.response = ErrorResponse("Session not found")

(***************************************************************************)
(* Claims about cleanup and the executions it leaves behind.               *)
(***************************************************************************)
\* The request ids whose execution settles or whose deadline passes in this
\* step.
SettlingRequests == (DOMAIN running \ DOMAIN running') \cup (timers \ timers')

\* C40: KodeIntegration.cleanup rejects every pending tool request (the
\* caller of each gets its failure in that step), leaves the pending map
\* empty and the integration uninitialised; when the execution of a request
\* that is no longer pending completes or its deadline passes, no state of
\* the integration or the agent changes and no caller is answered.
C40_CleanupSettlesPendingOnce ==
  [][ /\ (kodeIntegration.initialized /\ ~kodeIntegration'.initialized) =>
           /\ kodeIntegration'.pendingRequests = {}
           /\ \A requestId \in kodeIntegration.pendingRequests :
                /\ requestId \in DOMAIN calls
                /\ requestId \notin DOMAIN calls'
                /\ [ type |-> calls[requestId].message.type,
                     outcome |-> catchToolFailure("Kode integration shutting down") ]
                     \in returned'
      /\ (SettlingRequests # {} /\ SettlingRequests \cap kodeIntegration.pendingRequests = {}) =>
           /\ kodeIntegration' = kodeIntegration
           /\ agentSessions' = agentSessions
           /\ multiModelManager' = multiModelManager
           /\ calls' = calls
           /\ returned' = {} ]_vars

\* cleanup has just rejected a tool call whose execution is still running
\* and whose timer is still armed.
C40_Witness ==
  /\ ~kodeIntegration.initialized
  /\ kodeIntegration.pendingRequests = {}
  /\ \E requestId \in DOMAIN running :
       /\ requestId \in timers
       /\ requestId \notin DOMAIN calls
  /\ \E r \in returned : r.type = "tool_call" /\ r.outcome = catchToolFailure("Kode integration shutting down")

====
